---- MODULE Spec2Model ----
(***************************************************************************)
(* A model of discord-ui's slash-command layer: the command model          *)
(* (SlashOption, BaseCommand, SlashSubcommand), the collapsing of          *)
(* subcommands into top-level commands (Slash.gather_commands) and the     *)
(* reconciliation of declared commands with the remote command API         *)
(* (Slash.create_command, add_global_command, add_guild_command over       *)
(* SlashHTTP).                                                             *)
(*                                                                         *)
(* Strings are sequences of one-character strings, so that the name        *)
(* normalisers act on characters.  A Python dict is a record (a function   *)
(* on its keys) when its keys are fixed strings, and a sequence of         *)
(* [key, val] pairs in insertion order when it is iterated.  A value that  *)
(* may be None is [none |-> TRUE, v |-> <<>>] or [none |-> FALSE, v |-> x].*)
(***************************************************************************)
EXTENDS Integers, Sequences, FiniteSets, TLC

VARIABLES
    \* ---- the registry (Slash.commands, Slash.subcommands) and gather_commands
    commands,       \* dict name -> SlashCommand object
    subcommands,    \* dict base -> dict key -> SlashSubcommand | dict name -> SlashSubcommand
    gathered,       \* result of the last gather_commands() call
    prevGathered,   \* result of the call before it
    gcount,         \* gather_commands() calls since the last registration
    regs,           \* registrations made so far
    \* ---- one synchronisation against the remote command API
    decl,           \* the declared (gathered) commands handed to the synchroniser
    delete_unused,  \* Slash.delete_unused
    forbidden,      \* guilds whose command endpoints answer 403
    remoteGlobal,   \* remote global commands, in creation order
    remoteGuild,    \* guild -> remote guild commands, in creation order
    remotePerms,    \* guild -> command id -> permission entries
    nextId,         \* next id the remote API assigns
    pc,             \* where the synchronisation stands
    ci,             \* index of the command being synchronised
    gi,             \* index into its guild_ids (create_command's outer loop)
    target,         \* guild_id handed to add_guild_command
    base,           \* the command object handed to add_*_command
    api_command,    \* local of add_global_command / add_guild_command
    api_permissions,\* local of add_guild_command
    global_command, \* local of add_guild_command
    data,           \* the command whose permissions update_command_permissions puts
    pending,        \* remote commands still to visit in the delete_unused pass
    log,            \* the HTTP requests of this run, in the order issued
    retries,        \* 429 answers received in this run
    run,            \* synchronisation runs started
    remote0,        \* the remote state when this run started
    \* ---- the interaction routers (Slash._on_slash_response, Components._on_component_response)
    auto_defer,            \* (enabled, hidden), the same tuple for both routers
    listening_components,  \* dict custom_id -> list of ListeningComponent
    component_listeners,   \* _connection._component_listeners: str(message id) -> Listener
    interaction,           \* the gateway message the last handler run was given
    handled,               \* which handler that run was
    trace,                 \* what that run did, in order: requests, events, callbacks
    raised,                \* the exception the last operation left with, or None
    ready,                 \* Slash.ready
    \* ---- one object of the command model and the last operation applied to it
    object,                \* the object (a SlashOption, a command, a SlashPermission), or None
    argument,              \* the argument the operation was given, or None
    returned,              \* the value the operation returned, or None
    operation,             \* the operation
    \* ---- the event loop of the client
    tasks                  \* the coroutines suspended on it, oldest first

gatherVars == <<commands, subcommands, gathered, prevGathered, gcount, regs>>
syncVars   == <<decl, delete_unused, forbidden, remoteGlobal, remoteGuild, remotePerms,
                nextId, pc, ci, gi, target, base, api_command, api_permissions,
                global_command, data, pending, log, retries, run, remote0>>
routerVars == <<auto_defer, listening_components, component_listeners, interaction,
                handled, trace, raised, ready>>
typeVars   == <<object, argument, returned, operation>>
loopVars   == <<tasks>>
vars       == <<commands, subcommands, gathered, prevGathered, gcount, regs,
                decl, delete_unused, forbidden, remoteGlobal, remoteGuild, remotePerms,
                nextId, pc, ci, gi, target, base, api_command, api_permissions,
                global_command, data, pending, log, retries, run, remote0,
                auto_defer, listening_components, component_listeners, interaction,
                handled, trace, raised, ready, object, argument, returned, operation,
                tasks>>

(***************************************************************************)
(* Bounds of the model.                                                    *)
(***************************************************************************)
MaxReg     == 2    \* registrations before the registry is left alone
MaxGather  == 2    \* gather_commands() calls between two registrations
MaxRetries == 1    \* 429 answers within one synchronisation run
MaxRuns    == 2    \* synchronisation runs in a row

(***************************************************************************)
(* Program constants.                                                      *)
(***************************************************************************)
Slash             == 1     \* CommandType.Slash
User              == 2     \* CommandType.User
SUB_COMMAND       == 1     \* OptionType.SUB_COMMAND
SUB_COMMAND_GROUP == 2     \* OptionType.SUB_COMMAND_GROUP
OptString         == 3     \* OptionType.STRING
PermUser          == 2     \* SlashPermission.USER

(***************************************************************************)
(* Python values.                                                          *)
(***************************************************************************)
None    == [none |-> TRUE, v |-> <<>>]
Some(x) == [none |-> FALSE, v |-> x]

\* tools._or: the first argument that is not None
_or(a, b) == IF ~a.none THEN a.v ELSE b

\* dict.get(k) on a dict with string keys, as an optional value
Get(d, k) == IF k \in DOMAIN d THEN Some(d[k]) ELSE None
\* dict.get(k, default)
GetDef(d, k, default) == IF k \in DOMAIN d THEN d[k] ELSE default

\* an insertion-ordered dict as a sequence of [key, val]
DictHas(d, k) == \E i \in 1..Len(d) : d[i].key = k
DictIdx(d, k) == CHOOSE i \in 1..Len(d) : d[i].key = k
DictGet(d, k) == d[DictIdx(d, k)].val
DictSet(d, k, x) ==
    IF DictHas(d, k) THEN [d EXCEPT ![DictIdx(d, k)].val = x]
    ELSE Append(d, [key |-> k, val |-> x])

UpperCase == <<"A","B","C","D","E","F","G","H","I","J","K","L","M",
               "N","O","P","Q","R","S","T","U","V","W","X","Y","Z">>
LowerCase == <<"a","b","c","d","e","f","g","h","i","j","k","l","m",
               "n","o","p","q","r","s","t","u","v","w","x","y","z">>
\* str.lower() on one character: the characters it gives.  U+0130, the capital I with a
\* dot above, is the one character whose lowercase form is two characters long.
lower(ch) ==
    IF \E i \in 1..Len(UpperCase) : UpperCase[i] = ch
    THEN <<LowerCase[CHOOSE i \in 1..Len(UpperCase) : UpperCase[i] = ch]>>
    ELSE IF ch = "U+0130" THEN <<"i", "U+0307">>
    ELSE <<ch>>

\* str.lower()
RECURSIVE str_lower(_)
str_lower(value) ==
    IF value = <<>> THEN <<>> ELSE lower(Head(value)) \o str_lower(Tail(value))

\* types.format_name: str(value).lower().replace(" ", "-")
format_name(value) ==
    LET low == str_lower(value)
    IN  [i \in 1..Len(low) |-> IF low[i] = " " THEN "-" ELSE low[i]]

\* SlashOption.name setter: value.lower().replace(" ", "_")
option_name(value) ==
    LET low == str_lower(value)
    IN  [i \in 1..Len(low) |-> IF low[i] = " " THEN "_" ELSE low[i]]

(***************************************************************************)
(* SlashOption.  The object is its _json dict.                             *)
(***************************************************************************)
SlashOption(argument_type, name, description, required, choices, autocomplete, choice_generator, options) ==
    LET ac == autocomplete \/ choice_generator
        nm == option_name(name)
        js == [type         |-> argument_type,
               name         |-> nm,
               description  |-> _or(description, nm),
               required     |-> required,
               options      |-> IF options.none THEN <<>> ELSE options.v,
               autocomplete |-> ac]
    IN  IF ac = FALSE /\ ~choices.none THEN [choices |-> choices.v] @@ js ELSE js

\* SlashOption._from_data
_from_data(d) ==
    SlashOption(d.type, d.name, Some(d.description), GetDef(d, "required", FALSE),
                Get(d, "choices"), GetDef(d, "autocomplete", FALSE), FALSE, Get(d, "options"))

\* the options getter of SlashOption and of BaseCommand
OptionsOf(json) ==
    LET raw == GetDef(json, "options", <<>>)
    IN  [i \in 1..Len(raw) |-> _from_data(raw[i])]

\* SlashOption.__eq__(o) for a dict o
RECURSIVE OptionEqDict(_, _)
OptionEqDict(self, o) ==
    LET mine   == OptionsOf(self)
        theirs == GetDef(o, "options", <<>>)
    IN  /\ self.type = o.type
        /\ self.name = o.name
        /\ Some(self.description) = Get(o, "description")
        /\ self.required = GetDef(o, "required", FALSE)
        /\ \/ Get(self, "choices") = Some(GetDef(o, "choices", <<>>))
           \/ Get(self, "choices") = Get(o, "choices")
        /\ \/ /\ Len(mine) = Len(theirs)
              /\ \A i \in 1..Len(mine) : OptionEqDict(mine[i], theirs[i])
           \/ /\ mine = <<>>
              /\ "options" \notin DOMAIN o
        /\ GetDef(self, "autocomplete", FALSE) = GetDef(o, "autocomplete", FALSE)

(***************************************************************************)
(* OptionType                                                              *)
(***************************************************************************)
\* the other option kinds
OptInteger     == 4
OptBoolean     == 5
OptMember      == 6
OptChannel     == 7
OptRole        == 8
OptMentionable == 9
OptFloat       == 10

\* type hints: an int (an OptionType is one), a class, the typing.Union Mentionable, a str,
\* a list of channel types, and None
IntHint(n)   == [kind |-> "int", int |-> n]
ClassHint(c) == [kind |-> "class", class |-> c]
StrHint(t)   == [kind |-> "str", str |-> t]
UnionHint    == [kind |-> "union", union |-> "Mentionable"]
ListHint     == [kind |-> "list", list |-> <<"discord.TextChannel">>]
NoneHint     == [kind |-> "none"]

\* OptionType.any_to_type(whatever): the kind it returns, None where it falls off its end.
\* inspect.isclass is false of Mentionable, a typing.Union, so `whatever is Mentionable`
\* is never reached with it.
any_to_type(whatever) ==
    IF whatever.kind = "int"
    THEN IF whatever.int \in 1..10 THEN Some(whatever.int) ELSE None
    ELSE IF whatever.kind = "class"
    THEN IF whatever.class = "str" THEN Some(OptString)
         ELSE IF whatever.class = "int" THEN Some(OptInteger)
         ELSE IF whatever.class = "bool" THEN Some(OptBoolean)
         ELSE IF whatever.class \in {"discord.User", "discord.Member"} THEN Some(OptMember)
         ELSE IF whatever.class \in {"discord.TextChannel", "discord.VoiceChannel",
                                 "discord.StageChannel", "discord.CategoryChannel"}
              THEN Some(OptChannel)
         ELSE IF whatever.class = "discord.Role" THEN Some(OptRole)
         ELSE IF whatever.class = "float" THEN Some(OptFloat)
         ELSE None
    ELSE IF whatever.kind = "str"
    THEN LET low == str_lower(whatever.str)
         IN
            IF low \in {<<"s", "t", "r">>, <<"s", "t", "r", "i", "n", "g">>, <<"t", "e", "x", "t">>, <<"c", "h", "a", "r", "[", "]">>}
            THEN Some(OptString) ELSE
            IF low \in {<<"i", "n", "t">>, <<"i", "n", "t", "e", "g", "e", "r">>, <<"n", "u", "m", "b", "e", "r">>}
            THEN Some(OptInteger) ELSE
            IF low \in {<<"b", "o", "o", "l">>, <<"b", "o", "o", "l", "e", "a", "n">>}
            THEN Some(OptBoolean) ELSE
            IF low \in {<<"u", "s", "e", "r">>, <<"d", "i", "s", "c", "o", "r", "d", ".", "u", "s", "e", "r">>, <<"m", "e", "m", "b", "e", "r">>, <<"d", "i", "s", "c", "o", "r", "d", ".", "m", "e", "m", "b", "e", "r">>, <<"u", "s", "r">>, <<"m", "b", "r">>}
            THEN Some(OptMember) ELSE
            IF low \in {<<"c", "h", "a", "n", "n", "e", "l">>}
            THEN Some(OptChannel) ELSE
            IF low \in {<<"r", "o", "l", "e">>, <<"d", "i", "s", "c", "o", "r", "d", ".", "r", "o", "l", "e">>}
            THEN Some(OptRole) ELSE
            IF low \in {<<"m", "e", "n", "t", "i", "o", "n", "a", "b", "l", "e">>, <<"m", "e", "n", "t", "i", "o", "n">>}
            THEN Some(OptMentionable) ELSE
            IF low \in {<<"f", "l", "o", "a", "t">>, <<"f", "l", "o", "a", "t", "i", "n", "g">>, <<"f", "l", "o", "a", "t", "i", "n", "g", " ", "n", "u", "m", "b", "e", "r">>, <<"f">>}
            THEN Some(OptFloat) ELSE
            None
    ELSE IF whatever.kind = "list" THEN Some(OptChannel)
    ELSE None

(***************************************************************************)
(* BaseCommand and its subclasses.  A command object is its _json dict     *)
(* together with the attributes kept outside it.  A callback is None or    *)
(* a function: [name, doc |-> optional first docstring line, coroutine |-> *)
(* whether it is an `async def`, raises |-> whether a call of it raises].  *)
(***************************************************************************)
\* a choice generator: a coroutine function and the choices a call of it returns, each a
\* tuple (name, value) or a dict {name, value}
Generator(name, choices) == [name |-> name, choices |-> choices]
TupleChoice(name, value) == [tuple |-> <<name, value>>]

\* a SlashOption object that was given a choice_generator: the generator is an attribute
\* of the object, outside its _json
WithGenerator(option, generator) == [choice_generator |-> generator] @@ option

\* SlashOption.to_dict: the _json alone
OptionDict(option) == [k \in DOMAIN option \ {"choice_generator"} |-> option[k]]

\* __choice_generators__ as the options setter leaves it: the generator of every option
\* that has one, under the option's name
RECURSIVE ChoiceGenerators(_)
ChoiceGenerators(options) ==
    IF options = <<>> THEN <<>>
    ELSE IF "choice_generator" \in DOMAIN Head(options)
         THEN DictSet(ChoiceGenerators(Tail(options)), Head(options).name,
                      Head(options).choice_generator)
         ELSE ChoiceGenerators(Tail(options))

BaseCommand(command_type, callback, name, description, options, guild_ids, default_permission, guild_permissions) ==
    LET nm  == IF command_type = Slash THEN format_name(name) ELSE name
        doc == IF callback.none THEN None ELSE callback.v.doc
        js  == [type |-> command_type, name |-> nm,
                default_permission |-> _or(default_permission, TRUE)]
    IN  [json |-> IF command_type = Slash
                  THEN [description |-> _or(description, _or(doc, nm)),
                        options     |-> [i \in 1..Len(_or(options, <<>>)) |->
                                            OptionDict(_or(options, <<>>)[i])]] @@ js
                  ELSE js,
         callback          |-> callback,
         choice_generators |-> ChoiceGenerators(_or(options, <<>>)),
         guild_ids         |-> guild_ids,
         guild_permissions |-> guild_permissions,
         permissions       |-> Some(<<>>)]

SlashCommand(callback, name, description, options, guild_ids, default_permission, guild_permissions) ==
    BaseCommand(Slash, callback, name, description, options, guild_ids,
                default_permission, guild_permissions)

SlashSubcommand(callback, base_names, name, description, options, guild_ids, default_permission, guild_permissions) ==
    [base_names |-> [i \in 1..Len(base_names) |-> format_name(base_names[i])]]
    @@ BaseCommand(Slash, callback, name, description, options, guild_ids,
                   default_permission, guild_permissions)

\* BaseCommand.description getter, ContextCommand.description
DescriptionOf(c) == IF c.json.type = Slash THEN c.json.description ELSE <<>>

\* as to_dict, leaving the options out
to_dictWithoutOptions(c) == [k \in DOMAIN c.json \ {"options"} |-> c.json[k]]

\* BaseCommand.to_dict
to_dict(c) == c.json

\* SlashSubcommand.to_option (and to_dict, which returns its _json)
to_option(sub) ==
    SlashOption(SUB_COMMAND, sub.json.name, Some(sub.json.description), FALSE, None,
                FALSE, FALSE,
                IF OptionsOf(sub.json) = <<>> THEN None ELSE Some(OptionsOf(sub.json)))

\* BaseCommand.__eq__(o) for a dict o, as used by `api_command != base`
CommandEqDict(self, o) ==
    LET mine   == IF self.json.type = Slash THEN OptionsOf(self.json) ELSE <<>>
        theirs == GetDef(o, "options", <<>>)
    IN  /\ o.type = self.json.type
        /\ o.name = self.json.name
        /\ Get(o, "description") = Some(DescriptionOf(self))
        /\ Len(theirs) = Len(mine)
        /\ \A i \in 1..Len(mine) : OptionEqDict(mine[i], theirs[i])
        /\ GetDef(o, "default_permission", TRUE) = GetDef(self.json, "default_permission", FALSE)

(***************************************************************************)
(* Slash.gather_commands                                                   *)
(***************************************************************************)
\* tools.get_index(list, value, key): the 0-based index of the first match, or -1
get_index(ops, name) ==
    IF \E i \in 1..Len(ops) : ops[i].name = name
    THEN (CHOOSE i \in 1..Len(ops) : ops[i].name = name /\ \A j \in 1..(i-1) : ops[j].name # name) - 1
    ELSE -1

\* as AppendOption, with `=` in place of `+=`
AppendOptionAssign(json, op) == [json EXCEPT !.options = <<op>>]

\* `x.options += [op]` through the options getter and setter of x
AppendOption(json, op) == [json EXCEPT !.options = Append(OptionsOf(json), op)]

\* the subcommands of the registry in the order gather_commands visits them
RECURSIVE FlattenSubs(_, _)
FlattenSubs(b, entries) ==
    IF entries = <<>> THEN <<>>
    ELSE LET e == Head(entries)
             here == IF e.val.isdict
                     THEN [i \in 1..Len(e.val.members) |->
                             [base |-> b, key |-> e.key, isdict |-> TRUE,
                              sub |-> e.val.members[i].val]]
                     ELSE <<[base |-> b, key |-> e.key, isdict |-> FALSE, sub |-> e.val.sub]>>
         IN  here \o FlattenSubs(b, Tail(entries))

RECURSIVE FlattenBases(_)
FlattenBases(subs) ==
    IF subs = <<>> THEN <<>>
    ELSE FlattenSubs(Head(subs).key, Head(subs).val) \o FlattenBases(Tail(subs))

\* as GatherStep, with the values of the child written to a parent that was declared
GatherStepChildWins(cmds, it) ==
    IF it.isdict
    THEN IF DictHas(cmds, it.base)
         THEN LET c        == DictGet(cmds, it.base)
                  base_ops == OptionsOf(c.json)
                  index    == get_index(base_ops, it.key)
              IN  IF index > -1
                  THEN DictSet(cmds, it.base,
                         [c EXCEPT !.json.options =
                            [base_ops EXCEPT ![index + 1] =
                                AppendOption(base_ops[index + 1], to_option(it.sub))]])
                  ELSE DictSet(cmds, it.base,
                         [c EXCEPT !.json = AppendOption(c.json,
                            SlashOption(SUB_COMMAND_GROUP, it.key, None, FALSE, None, FALSE,
                                        FALSE, Some(<<to_option(it.sub)>>)))])
         ELSE DictSet(cmds, it.base,
                SlashCommand(None, it.base, None,
                    Some(<<SlashOption(SUB_COMMAND_GROUP, it.key, None, FALSE, None, FALSE,
                                       FALSE, Some(<<to_option(it.sub)>>))>>),
                    it.sub.guild_ids, Some(it.sub.json.default_permission),
                    it.sub.guild_permissions))
    ELSE IF DictHas(cmds, it.base)
         THEN LET c == DictGet(cmds, it.base)
              IN  DictSet(cmds, it.base,
                    [c EXCEPT !.json = AppendOption(c.json, to_option(it.sub)),
                              !.guild_ids = it.sub.guild_ids,
                              !.guild_permissions = it.sub.guild_permissions])
         ELSE DictSet(cmds, it.base,
                SlashCommand(None, it.base, None, Some(<<to_option(it.sub)>>),
                    it.sub.guild_ids, Some(it.sub.json.default_permission),
                    it.sub.guild_permissions))

\* one iteration of the innermost loop body of gather_commands
GatherStep(cmds, it) ==
    IF it.isdict
    THEN IF DictHas(cmds, it.base)
         THEN LET c        == DictGet(cmds, it.base)
                  base_ops == OptionsOf(c.json)
                  index    == get_index(base_ops, it.key)
              IN  IF index > -1
                  THEN DictSet(cmds, it.base,
                         [c EXCEPT !.json.options =
                            [base_ops EXCEPT ![index + 1] =
                                AppendOption(base_ops[index + 1], to_option(it.sub))]])
                  ELSE DictSet(cmds, it.base,
                         [c EXCEPT !.json = AppendOption(c.json,
                            SlashOption(SUB_COMMAND_GROUP, it.key, None, FALSE, None, FALSE,
                                        FALSE, Some(<<to_option(it.sub)>>)))])
         ELSE DictSet(cmds, it.base,
                SlashCommand(None, it.base, None,
                    Some(<<SlashOption(SUB_COMMAND_GROUP, it.key, None, FALSE, None, FALSE,
                                       FALSE, Some(<<to_option(it.sub)>>))>>),
                    it.sub.guild_ids, Some(it.sub.json.default_permission),
                    it.sub.guild_permissions))
    ELSE IF DictHas(cmds, it.base)
         THEN LET c == DictGet(cmds, it.base)
              IN  DictSet(cmds, it.base, [c EXCEPT !.json = AppendOption(c.json, to_option(it.sub))])
         ELSE DictSet(cmds, it.base,
                SlashCommand(None, it.base, None, Some(<<to_option(it.sub)>>),
                    it.sub.guild_ids, Some(it.sub.json.default_permission),
                    it.sub.guild_permissions))

RECURSIVE GatherFold(_, _)
GatherFold(cmds, items) ==
    IF items = <<>> THEN cmds
    ELSE GatherFold(GatherStep(cmds, Head(items)), Tail(items))

\* the dict gather_commands returns: self.commands.copy() with every subcommand folded in
gather_commands(cmds, subs) == GatherFold(cmds, FlattenBases(subs))

\* self.commands after the call: copy() is shallow, so the command objects that were in
\* self.commands are the very objects the loop has assigned `.options` of
CommandsAfterGather(cmds, subs) ==
    LET res == gather_commands(cmds, subs)
    IN  [i \in 1..Len(cmds) |-> res[i]]

(***************************************************************************)
(* SlashPermission.  The object is its _json list of entries               *)
(* [id, type, permission].                                                 *)
(***************************************************************************)
\* SlashPermission(allowed={id: type}): one allowed entry
Allowed(id, type) == <<[id |-> id, type |-> type, permission |-> TRUE]>>

P1 == Allowed(7, PermUser)
P2 == Allowed(8, PermUser)

\* SlashPermission.allowed / .forbidden, and the same split of o["permissions"]
PermFilter(entries, allow) == SelectSeq(entries, LAMBDA x : x.permission = allow)

\* SlashPermission.__eq__(o) for the dict o = {"permissions": entries}
PermEqDict(self, entries) ==
    LET a  == PermFilter(self, TRUE)
        f  == PermFilter(self, FALSE)
        oa == PermFilter(entries, TRUE)
        of == PermFilter(entries, FALSE)
    IN  /\ Len(a) = Len(oa)
        /\ \A i \in 1..Len(a) : a[i] = oa[i]
        /\ Len(f) = Len(of)
        /\ \A i \in 1..Len(f) : f[i] = of[i]

\* SlashPermission.__eq__(o) for a SlashPermission o: every forbidden entry of self is
\* compared with the whole list o.forbidden, and a dict never equals a list
PermEqPermission(self, o) ==
    LET a  == PermFilter(self, TRUE)
        f  == PermFilter(self, FALSE)
        oa == PermFilter(o, TRUE)
        of == PermFilter(o, FALSE)
    IN  /\ Len(a) = Len(oa)
        /\ \A i \in 1..Len(oa) : a[i] = oa[i]
        /\ Len(f) = Len(of)
        /\ of = <<>>

\* SlashPermission(allowed = {id: type}, forbidden = {id: type})
SlashPermission(allowed, denied) ==
    [i \in 1..Len(allowed) |-> [id |-> allowed[i].key, type |-> allowed[i].val,
                                permission |-> TRUE]]
    \o [i \in 1..Len(denied) |-> [id |-> denied[i].key, type |-> denied[i].val,
                                  permission |-> FALSE]]

(***************************************************************************)
(* The registry and its operations.                                        *)
(***************************************************************************)
Ping == <<"p","i","n","g">>
Math == <<"m","a","t","h">>
MathRaw == <<"M","a","t","h">>
AddName == <<"a","d","d">>
SubName == <<"s","u","b">>
OpsName == <<"o","p","s">>
TrigName == <<"T","r","i","g">>
Guilds == {1, 2}

\* a parameter of a function: its name, its annotation and the type of its default, each
\* None where the function has none
Param(name, annotation, default) == [name |-> name, annotation |-> annotation, default |-> default]
Ctx == Param(<<"c", "t", "x">>, None, None)

\* a function and inspect.signature(function).parameters
Function(name, coroutine, raises, signature) ==
    [name |-> name, doc |-> None, coroutine |-> coroutine, raises |-> raises,
     parameters |-> Len(signature), signature |-> signature, aliases |-> None]

\* the function with `__aliases__` set, as the alias decorator leaves it
WithAliases(f, aliases) == [f EXCEPT !.aliases = Some(aliases)]

Callback == Some(Function("callback", TRUE, FALSE, <<Ctx>>))

\* names, as written by the declaring code
CommandNames    == {Ping, MathRaw}
BaseNames       == {MathRaw}
SubcommandNames == {AddName, SubName}
GroupNames      == {OpsName, TrigName}
\* the guild_ids, default_permission and guild_permissions a declaration is made with
CommandSettings ==
    { [guild_ids |-> <<>>, default_permission |-> None, guild_permissions |-> None],
      [guild_ids |-> <<1>>, default_permission |-> Some(FALSE),
       guild_permissions |-> Some(<<[key |-> 1, val |-> P1]>>)] }

\* no object of the command model is being operated on
TypesIdle ==
    /\ object = None
    /\ argument = None
    /\ returned = None
    /\ operation = "none"

\* no coroutine is suspended on the event loop
LoopIdle == tasks = <<>>

\* the state of the routers while no interaction is delivered
RouterIdle ==
    /\ auto_defer = <<FALSE, FALSE>>
    /\ listening_components = <<>>
    /\ component_listeners = <<>>
    /\ interaction = None
    /\ handled = None
    /\ trace = <<>>
    /\ raised = None

\* the state of the synchroniser while only the registry is exercised
SyncIdle ==
    /\ decl = <<>>
    /\ delete_unused = FALSE
    /\ forbidden = {}
    /\ remoteGlobal = <<>>
    /\ remoteGuild = [g \in Guilds |-> <<>>]
    /\ remotePerms = [g \in Guilds |-> <<>>]
    /\ nextId = 0
    /\ pc = "idle"
    /\ ci = 0
    /\ gi = 0
    /\ target = 0
    /\ base = None
    /\ api_command = None
    /\ api_permissions = None
    /\ global_command = None
    /\ data = None
    /\ pending = <<>>
    /\ log = <<>>
    /\ retries = 0
    /\ run = 0
    /\ remote0 = [global |-> <<>>, guild |-> [g \in Guilds |-> <<>>],
                  perms |-> [g \in Guilds |-> <<>>]]

InitGather ==
    /\ commands = <<>>
    /\ subcommands = <<>>
    /\ gathered = <<>>
    /\ prevGathered = <<>>
    /\ gcount = 0
    /\ regs = 0
    /\ SyncIdle
    /\ RouterIdle
    /\ ready = FALSE
    /\ TypesIdle
    /\ LoopIdle

\* SlashBuilder.register without subcommands: slash.commands[self.name] = self
RegisterCommand(name, guild_ids, default_permission, guild_permissions) ==
    /\ regs < MaxReg
    /\ LET c == SlashCommand(Callback, name, None, None, guild_ids, default_permission,
                             guild_permissions)
       IN  commands' = DictSet(commands, c.json.name, c)
    /\ regs' = regs + 1
    /\ gcount' = 0
    /\ UNCHANGED <<subcommands, gathered, prevGathered>>
    /\ UNCHANGED syncVars
    /\ UNCHANGED typeVars
    /\ UNCHANGED loopVars
    /\ UNCHANGED routerVars

\* SlashBuilder.register, ungrouped: slash.subcommands[self.name][x.name] = x
RegisterSubcommand(base_name, name, guild_ids, default_permission, guild_permissions) ==
    /\ regs < MaxReg
    /\ LET x  == SlashSubcommand(Callback, <<base_name>>, name, None, None, guild_ids,
                                 default_permission, guild_permissions)
           b  == x.base_names[1]
           d0 == IF DictHas(subcommands, b) THEN subcommands
                 ELSE DictSet(subcommands, b, <<>>)
       IN  subcommands' = DictSet(d0, b,
                DictSet(DictGet(d0, b), x.json.name, [isdict |-> FALSE, sub |-> x, members |-> <<>>]))
    /\ regs' = regs + 1
    /\ gcount' = 0
    /\ UNCHANGED <<commands, gathered, prevGathered>>
    /\ UNCHANGED syncVars
    /\ UNCHANGED typeVars
    /\ UNCHANGED loopVars
    /\ UNCHANGED routerVars

\* SlashBuilder.register, grouped: slash.subcommands[self.name][x.group_name][x.name] = x
RegisterGroupSubcommand(base_name, group_name, name, guild_ids, default_permission, guild_permissions) ==
    /\ regs < MaxReg
    /\ LET x  == SlashSubcommand(Callback, <<base_name, group_name>>, name, None, None,
                                 guild_ids, default_permission, guild_permissions)
           b  == x.base_names[1]
           g  == x.base_names[2]
           d0 == IF DictHas(subcommands, b) THEN subcommands
                 ELSE DictSet(subcommands, b, <<>>)
           e0 == IF DictHas(DictGet(d0, b), g) THEN DictGet(DictGet(d0, b), g)
                 ELSE [isdict |-> TRUE, sub |-> x, members |-> <<>>]
       IN  /\ e0.isdict
           /\ subcommands' = DictSet(d0, b,
                DictSet(DictGet(d0, b), g,
                        [e0 EXCEPT !.members = DictSet(e0.members, x.json.name, x)]))
    /\ regs' = regs + 1
    /\ gcount' = 0
    /\ UNCHANGED <<commands, gathered, prevGathered>>
    /\ UNCHANGED syncVars
    /\ UNCHANGED typeVars
    /\ UNCHANGED loopVars
    /\ UNCHANGED routerVars

\* a call of Slash.gather_commands()
Gather ==
    /\ gcount < MaxGather
    /\ gathered' = gather_commands(commands, subcommands)
    /\ prevGathered' = gathered
    /\ commands' = CommandsAfterGather(commands, subcommands)
    /\ gcount' = gcount + 1
    /\ UNCHANGED <<subcommands, regs>>
    /\ UNCHANGED syncVars
    /\ UNCHANGED typeVars
    /\ UNCHANGED loopVars
    /\ UNCHANGED routerVars

NextGather ==
    \/ \E n \in CommandNames, s \in CommandSettings :
            RegisterCommand(n, s.guild_ids, s.default_permission, s.guild_permissions)
    \/ \E b \in BaseNames, n \in SubcommandNames, s \in CommandSettings :
            RegisterSubcommand(b, n, s.guild_ids, s.default_permission, s.guild_permissions)
    \/ \E b \in BaseNames, gr \in GroupNames, n \in SubcommandNames, s \in CommandSettings :
            RegisterGroupSubcommand(b, gr, n, s.guild_ids, s.default_permission,
                                    s.guild_permissions)
    \/ Gather

SpecGather == InitGather /\ [][NextGather]_vars

(***************************************************************************)
(* The remote command API, seen through SlashHTTP.  A command list is a    *)
(* sequence of the dicts the API returns: the payload it was sent plus the *)
(* id it assigned.                                                         *)
(***************************************************************************)
\* as ApiCommand, looking the command up by its name alone
ApiCommandByName(list, name, typ) ==
    IF \E i \in 1..Len(list) : list[i].name = name
    THEN Some(list[CHOOSE i \in 1..Len(list) :
                     /\ list[i].name = name
                     /\ \A j \in 1..(i-1) : list[j].name # name])
    ELSE None

\* _get_global_api_command / _get_guild_api_command: the first command of the list
\* with that name and type, or None
ApiCommand(list, name, typ) ==
    IF \E i \in 1..Len(list) : list[i].name = name /\ list[i].type = typ
    THEN Some(list[CHOOSE i \in 1..Len(list) :
                     /\ list[i].name = name /\ list[i].type = typ
                     /\ \A j \in 1..(i-1) : ~(list[j].name = name /\ list[j].type = typ)])
    ELSE None

\* POST .../commands: creates the command, or overwrites the one of that name and type
RemoteCreate(list, payload, id) ==
    IF ~ApiCommand(list, payload.name, payload.type).none
    THEN [i \in 1..Len(list) |->
            IF list[i].name = payload.name /\ list[i].type = payload.type
            THEN [id |-> list[i].id] @@ payload ELSE list[i]]
    ELSE Append(list, [id |-> id] @@ payload)

\* PATCH .../commands/{id}
RemoteEdit(list, id, payload) ==
    [i \in 1..Len(list) |-> IF list[i].id = id THEN [id |-> id] @@ payload ELSE list[i]]

\* DELETE .../commands/{id}
RemoteDelete(list, id) == SelectSeq(list, LAMBDA x : x.id # id)

\* one request in the log: the http method, its arguments, the status of the answer, the
\* body of the answer to a GET, and the create_command call (ci, gi) it was made in
Request(call, scope, id, payload, status, result) ==
    [call |-> call, scope |-> scope, id |-> id, payload |-> payload, status |-> status,
     result |-> result, ci |-> ci, gi |-> gi]

\* as RateLimited, starting the run over instead of entering the method again
RateLimitedRestart(call, scope, id, payload) ==
    /\ retries < MaxRetries
    /\ log' = Append(log, Request(call, scope, id, payload, 429, None))
    /\ retries' = retries + 1
    /\ pc' = "sync"
    /\ ci' = 1
    /\ gi' = 0
    /\ UNCHANGED <<remoteGlobal, remoteGuild, remotePerms, nextId, target, base,
                   api_command, api_permissions, global_command, data, pending, decl>>

\* as RateLimited, the 429 leaving the method as an error instead of being retried
RateLimitedGivesUp(call, scope, id, payload) ==
    /\ retries < MaxRetries
    /\ log' = Append(log, Request(call, scope, id, payload, 429, None))
    /\ retries' = retries + 1
    /\ pc' = "error"
    /\ UNCHANGED <<remoteGlobal, remoteGuild, remotePerms, nextId, ci, gi, target, base,
                   api_command, api_permissions, global_command, data, pending, decl>>

\* the request is answered 429: handle_rate_limit waits and the same http method is
\* entered again with the same arguments
RateLimited(call, scope, id, payload) ==
    /\ retries < MaxRetries
    /\ log' = Append(log, Request(call, scope, id, payload, 429, None))
    /\ retries' = retries + 1
    /\ UNCHANGED <<remoteGlobal, remoteGuild, remotePerms, nextId, pc, ci, gi, target, base,
                   api_command, api_permissions, global_command, data, pending, decl>>

Answered(call, scope, id, payload, status, result) ==
    /\ log' = Append(log, Request(call, scope, id, payload, status, result))
    /\ UNCHANGED retries

(***************************************************************************)
(* Slash.create_command                                                    *)
(***************************************************************************)
\* the value of x when add_guild_command is called in iteration i of `for x in guild_ids`:
\* the inner `for x in list(command.guild_permissions.keys())` rebinds x
GuildTarget(command, i) ==
    IF ~command.guild_permissions.none /\ Len(command.guild_permissions.v) > 0
    THEN command.guild_permissions.v[Len(command.guild_permissions.v)].key
    ELSE command.guild_ids[i]

\* command.permissions after `command.permissions = command.guild_permissions.get(x)`
GuildPermissions(command, x) ==
    IF command.guild_permissions.none THEN command.permissions
    ELSE IF DictHas(command.guild_permissions.v, x)
         THEN Some(DictGet(command.guild_permissions.v, x))
         ELSE None

\* the scopes a declaration is made for: 0 is the global scope
DeclaredScopes(command) ==
    IF command.guild_ids = <<>> THEN {0}
    ELSE {command.guild_ids[i] : i \in 1..Len(command.guild_ids)}

\* where add_*_command returns to
ReturnToCreateCommand ==
    IF base.v.guild_ids = <<>>
    THEN /\ pc' = "sync"
         /\ ci' = ci + 1
         /\ gi' = 0
    ELSE /\ pc' = "create_command"
         /\ gi' = gi + 1
         /\ ci' = ci

\* create_command(command): the loop over guild_ids, or the call of add_global_command
CreateCommand ==
    /\ pc = "create_command"
    /\ LET command == base.v
       IN  IF command.guild_ids = <<>>
           THEN /\ pc' = "add_global_command"
                /\ UNCHANGED <<ci, gi, target, base, decl>>
           ELSE IF gi > Len(command.guild_ids)
           THEN /\ pc' = "sync"
                /\ ci' = ci + 1
                /\ gi' = 0
                /\ UNCHANGED <<target, base, decl>>
           ELSE LET x == GuildTarget(command, gi)
                    c == [command EXCEPT !.permissions = GuildPermissions(command, x)]
                IN  /\ target' = x
                    /\ base' = Some(c)
                    /\ decl' = [decl EXCEPT ![ci] = c]
                    /\ pc' = "add_guild_command"
                    /\ UNCHANGED <<ci, gi>>
    /\ UNCHANGED <<remoteGlobal, remoteGuild, remotePerms, nextId, api_command,
                   api_permissions, global_command, data, pending, log, retries, run,
                   remote0, delete_unused, forbidden>>
    /\ UNCHANGED gatherVars
    /\ UNCHANGED typeVars
    /\ UNCHANGED loopVars
    /\ UNCHANGED routerVars

(***************************************************************************)
(* Slash.add_global_command                                                *)
(***************************************************************************)
\* where add_global_command goes once it has api_command
GlobalBranch(api) ==
    IF api.none THEN "create_global_command"
    ELSE IF ~CommandEqDict(base.v, api.v) THEN "edit_global_command"
    ELSE "return"

AddGlobalLookup ==
    /\ pc = "add_global_command"
    /\ \/ RateLimited("get_global_commands", 0, 0, None)
       \/ /\ Answered("get_global_commands", 0, 0, None, 200, Some(remoteGlobal))
          /\ LET api == ApiCommand(remoteGlobal, base.v.json.name, base.v.json.type)
             IN  /\ api_command' = api
                 /\ IF GlobalBranch(api) = "return"
                    THEN ReturnToCreateCommand
                    ELSE /\ pc' = GlobalBranch(api)
                         /\ UNCHANGED <<ci, gi>>
          /\ UNCHANGED <<remoteGlobal, remoteGuild, remotePerms, nextId, target, base,
                         api_permissions, global_command, data, pending, decl>>
    /\ UNCHANGED <<run, remote0, delete_unused, forbidden>>
    /\ UNCHANGED gatherVars
    /\ UNCHANGED typeVars
    /\ UNCHANGED loopVars
    /\ UNCHANGED routerVars

AddGlobalCreate ==
    /\ pc = "create_global_command"
    /\ \/ RateLimited("create_global_command", 0, 0, Some(to_dict(base.v)))
       \/ /\ Answered("create_global_command", 0, 0, Some(to_dict(base.v)), 200, None)
          /\ remoteGlobal' = RemoteCreate(remoteGlobal, to_dict(base.v), nextId)
          /\ nextId' = nextId + 1
          /\ ReturnToCreateCommand
          /\ UNCHANGED <<remoteGuild, remotePerms, target, base, api_command,
                         api_permissions, global_command, data, pending, decl>>
    /\ UNCHANGED <<run, remote0, delete_unused, forbidden>>
    /\ UNCHANGED gatherVars
    /\ UNCHANGED typeVars
    /\ UNCHANGED loopVars
    /\ UNCHANGED routerVars

AddGlobalEdit ==
    /\ pc = "edit_global_command"
    /\ \/ RateLimited("edit_global_command", 0, api_command.v.id, Some(to_dict(base.v)))
       \/ /\ Answered("edit_global_command", 0, api_command.v.id, Some(to_dict(base.v)), 200, None)
          /\ remoteGlobal' = RemoteEdit(remoteGlobal, api_command.v.id, to_dict(base.v))
          /\ ReturnToCreateCommand
          /\ UNCHANGED <<remoteGuild, remotePerms, nextId, target, base, api_command,
                         api_permissions, global_command, data, pending, decl>>
    /\ UNCHANGED <<run, remote0, delete_unused, forbidden>>
    /\ UNCHANGED gatherVars
    /\ UNCHANGED typeVars
    /\ UNCHANGED loopVars
    /\ UNCHANGED routerVars

(***************************************************************************)
(* Slash.add_guild_command                                                 *)
(***************************************************************************)
\* the branch add_guild_command takes once api_command, api_permissions and
\* global_command are known
GuildBranch(api, perms, glob) ==
    IF api.none \/ ~glob.none
    THEN IF ~glob.none THEN "delete_global_command" ELSE "create_guild_command"
    ELSE IF ~CommandEqDict(base.v, api.v) THEN "edit_guild_command"
    ELSE IF base.v.permissions.none \/ ~PermEqDict(base.v.permissions.v, perms.v)
         THEN "update_command_permissions"
    ELSE "return"

AddGuildLookup ==
    /\ pc = "add_guild_command"
    /\ \/ RateLimited("get_guild_commands", target, 0, None)
       \/ /\ LET list == IF target \in forbidden THEN <<>> ELSE remoteGuild[target]
                 api  == ApiCommand(list, base.v.json.name, base.v.json.type)
             IN  /\ Answered("get_guild_commands", target, 0, None,
                             IF target \in forbidden THEN 403 ELSE 200, Some(list))
                 /\ api_command' = api
                 /\ pc' = IF api.none THEN "get_global_api_command"
                          ELSE "get_command_permissions"
          /\ UNCHANGED <<remoteGlobal, remoteGuild, remotePerms, nextId, ci, gi, target, base,
                         api_permissions, global_command, data, pending, decl>>
    /\ UNCHANGED <<run, remote0, delete_unused, forbidden>>
    /\ UNCHANGED gatherVars
    /\ UNCHANGED typeVars
    /\ UNCHANGED loopVars
    /\ UNCHANGED routerVars

AddGuildGetPermissions ==
    /\ pc = "get_command_permissions"
    /\ \/ RateLimited("get_command_permissions", target, api_command.v.id, None)
       \/ /\ LET has == DictHas(remotePerms[target], api_command.v.id)
             IN  /\ Answered("get_command_permissions", target, api_command.v.id, None,
                             IF has THEN 200 ELSE 404,
                             IF has THEN Some(DictGet(remotePerms[target], api_command.v.id))
                             ELSE Some(<<>>))
                 /\ api_permissions' =
                        IF has THEN Some(DictGet(remotePerms[target], api_command.v.id))
                        ELSE Some(<<>>)
          /\ pc' = "get_global_api_command"
          /\ UNCHANGED <<remoteGlobal, remoteGuild, remotePerms, nextId, ci, gi, target, base,
                         api_command, global_command, data, pending, decl>>
    /\ UNCHANGED <<run, remote0, delete_unused, forbidden>>
    /\ UNCHANGED gatherVars
    /\ UNCHANGED typeVars
    /\ UNCHANGED loopVars
    /\ UNCHANGED routerVars

AddGuildGlobalLookup ==
    /\ pc = "get_global_api_command"
    /\ \/ RateLimited("get_global_commands", 0, 0, None)
       \/ /\ Answered("get_global_commands", 0, 0, None, 200, Some(remoteGlobal))
          /\ LET glob == ApiCommand(remoteGlobal, base.v.json.name, base.v.json.type)
                 br   == GuildBranch(api_command, api_permissions, glob)
             IN  /\ global_command' = glob
                 /\ IF br = "return"
                    THEN ReturnToCreateCommand
                    ELSE /\ pc' = br
                         /\ UNCHANGED <<ci, gi>>
          /\ UNCHANGED <<remoteGlobal, remoteGuild, remotePerms, nextId, target, base,
                         api_command, api_permissions, data, pending, decl>>
    /\ UNCHANGED <<run, remote0, delete_unused, forbidden>>
    /\ UNCHANGED gatherVars
    /\ UNCHANGED typeVars
    /\ UNCHANGED loopVars
    /\ UNCHANGED routerVars

AddGuildDeleteGlobal ==
    /\ pc = "delete_global_command"
    /\ \/ RateLimited("delete_global_command", 0, global_command.v.id, None)
       \/ /\ Answered("delete_global_command", 0, global_command.v.id, None, 200, None)
          /\ remoteGlobal' = RemoteDelete(remoteGlobal, global_command.v.id)
          /\ pc' = "create_guild_command"
          /\ UNCHANGED <<remoteGuild, remotePerms, nextId, ci, gi, target, base, api_command,
                         api_permissions, global_command, data, pending, decl>>
    /\ UNCHANGED <<run, remote0, delete_unused, forbidden>>
    /\ UNCHANGED gatherVars
    /\ UNCHANGED typeVars
    /\ UNCHANGED loopVars
    /\ UNCHANGED routerVars

\* http.create_guild_command: the POST; update_command_permissions follows
AddGuildCreate ==
    /\ pc = "create_guild_command"
    /\ IF base.v.permissions.none
       THEN \* base.permissions.to_dict() on None raises AttributeError
            /\ pc' = "error"
            /\ UNCHANGED <<remoteGlobal, remoteGuild, remotePerms, nextId, ci, gi, target, base,
                           api_command, api_permissions, global_command, data, pending, decl,
                           log, retries>>
       ELSE \/ RateLimited("create_guild_command", target, 0, Some(to_dict(base.v)))
            \/ /\ target \in forbidden
               /\ Answered("create_guild_command", target, 0, Some(to_dict(base.v)), 403, None)
               /\ pc' = "error"
               /\ UNCHANGED <<remoteGlobal, remoteGuild, remotePerms, nextId, ci, gi, target,
                              base, api_command, api_permissions, global_command, data,
                              pending, decl>>
            \/ /\ target \notin forbidden
               /\ Answered("create_guild_command", target, 0, Some(to_dict(base.v)), 200, None)
               /\ LET list == RemoteCreate(remoteGuild[target], to_dict(base.v), nextId)
                  IN  /\ remoteGuild' = [remoteGuild EXCEPT ![target] = list]
                      /\ data' = ApiCommand(list, base.v.json.name, base.v.json.type)
               /\ nextId' = nextId + 1
               /\ pc' = "update_command_permissions"
               /\ UNCHANGED <<remoteGlobal, remotePerms, ci, gi, target, base, api_command,
                              api_permissions, global_command, pending, decl>>
    /\ UNCHANGED <<run, remote0, delete_unused, forbidden>>
    /\ UNCHANGED gatherVars
    /\ UNCHANGED typeVars
    /\ UNCHANGED loopVars
    /\ UNCHANGED routerVars

\* http.edit_guild_command: the PATCH; update_command_permissions follows
AddGuildEdit ==
    /\ pc = "edit_guild_command"
    /\ IF base.v.permissions.none
       THEN /\ pc' = "error"
            /\ UNCHANGED <<remoteGlobal, remoteGuild, remotePerms, nextId, ci, gi, target, base,
                           api_command, api_permissions, global_command, data, pending, decl,
                           log, retries>>
       ELSE \/ RateLimited("edit_guild_command", target, api_command.v.id, Some(to_dict(base.v)))
            \/ /\ Answered("edit_guild_command", target, api_command.v.id,
                           Some(to_dict(base.v)), 200, None)
               /\ remoteGuild' = [remoteGuild EXCEPT ![target] =
                                    RemoteEdit(@, api_command.v.id, to_dict(base.v))]
               /\ data' = Some([id |-> api_command.v.id] @@ to_dict(base.v))
               /\ pc' = "update_command_permissions"
               /\ UNCHANGED <<remoteGlobal, remotePerms, nextId, ci, gi, target, base,
                              api_command, api_permissions, global_command, pending, decl>>
    /\ UNCHANGED <<run, remote0, delete_unused, forbidden>>
    /\ UNCHANGED gatherVars
    /\ UNCHANGED typeVars
    /\ UNCHANGED loopVars
    /\ UNCHANGED routerVars

\* http.update_command_permissions, called by create_guild_command with data["id"], by
\* edit_guild_command with data["id"], and by add_guild_command with api_command["id"]
UpdateCommandPermissions ==
    /\ pc = "update_command_permissions"
    /\ IF base.v.permissions.none
       THEN /\ pc' = "error"
            /\ UNCHANGED <<remoteGlobal, remoteGuild, remotePerms, nextId, ci, gi, target, base,
                           api_command, api_permissions, global_command, data, pending, decl,
                           log, retries>>
       ELSE LET id == IF data.none THEN api_command.v.id ELSE data.v.id
            IN  \/ RateLimited("update_command_permissions", target, id,
                               Some(base.v.permissions.v))
                \/ /\ Answered("update_command_permissions", target, id,
                               Some(base.v.permissions.v), 200, None)
                   /\ remotePerms' = [remotePerms EXCEPT ![target] =
                                        DictSet(@, id, base.v.permissions.v)]
                   /\ data' = None
                   /\ ReturnToCreateCommand
                   /\ UNCHANGED <<remoteGlobal, remoteGuild, nextId, target, base, api_command,
                                  api_permissions, global_command, pending, decl>>
    /\ UNCHANGED <<run, remote0, delete_unused, forbidden>>
    /\ UNCHANGED gatherVars
    /\ UNCHANGED typeVars
    /\ UNCHANGED loopVars
    /\ UNCHANGED routerVars

(***************************************************************************)
(* The synchronisation run: every declared command goes through            *)
(* create_command; with delete_unused, the remote commands of each scope   *)
(* that have no declaration for that scope are deleted afterwards.         *)
(***************************************************************************)
Remote == [global |-> remoteGlobal, guild |-> remoteGuild, perms |-> remotePerms]

StartSync ==
    /\ pc = "idle"
    /\ run < MaxRuns
    /\ run' = run + 1
    /\ remote0' = Remote
    /\ log' = <<>>
    /\ retries' = 0
    /\ ci' = 1
    /\ gi' = 0
    /\ pc' = "sync"
    /\ UNCHANGED <<decl, delete_unused, forbidden, remoteGlobal, remoteGuild, remotePerms,
                   nextId, target, base, api_command, api_permissions, global_command, data,
                   pending>>
    /\ UNCHANGED gatherVars
    /\ UNCHANGED typeVars
    /\ UNCHANGED loopVars
    /\ UNCHANGED routerVars

\* the loop over the declared commands
SyncLoop ==
    /\ pc = "sync"
    /\ IF ci <= Len(decl)
       THEN /\ base' = Some(decl[ci])
            /\ gi' = 1
            /\ pc' = "create_command"
            /\ UNCHANGED target
       ELSE /\ base' = None
            /\ gi' = 0
            /\ target' = 0
            /\ pc' = IF delete_unused THEN "unused_global" ELSE "done"
    /\ api_command' = None
    /\ api_permissions' = None
    /\ global_command' = None
    /\ UNCHANGED <<decl, delete_unused, forbidden, remoteGlobal, remoteGuild, remotePerms,
                   nextId, ci, data, pending, log, retries, run, remote0>>
    /\ UNCHANGED gatherVars
    /\ UNCHANGED typeVars
    /\ UNCHANGED loopVars
    /\ UNCHANGED routerVars

\* a declaration of that name and type is made for the scope
Declared(scope, name, typ) ==
    \E i \in 1..Len(decl) :
        /\ decl[i].json.name = name
        /\ decl[i].json.type = typ
        /\ scope \in DeclaredScopes(decl[i])

Unused(scope, list) == SelectSeq(list, LAMBDA x : ~Declared(scope, x.name, x.type))

\* the guild visited after guild g by the delete_unused pass, 0 after the last
NextGuild(g) == IF \E h \in Guilds : h > g
                THEN CHOOSE h \in Guilds : h > g /\ \A k \in Guilds : k > g => h <= k
                ELSE 0

UnusedList ==
    /\ pc \in {"unused_global", "unused_guild"}
    /\ LET scope == IF pc = "unused_global" THEN 0 ELSE target
           call  == IF scope = 0 THEN "get_global_commands" ELSE "get_guild_commands"
           list  == IF scope = 0 THEN remoteGlobal
                    ELSE IF scope \in forbidden THEN <<>> ELSE remoteGuild[scope]
       IN  \/ RateLimited(call, scope, 0, None)
           \/ /\ Answered(call, scope, 0, None, IF scope \in forbidden THEN 403 ELSE 200,
                          Some(list))
              /\ pending' = Unused(scope, list)
              /\ pc' = "unused_delete"
              /\ UNCHANGED <<remoteGlobal, remoteGuild, remotePerms, nextId, ci, gi, target,
                             base, api_command, api_permissions, global_command, data, decl>>
    /\ UNCHANGED <<run, remote0, delete_unused, forbidden>>
    /\ UNCHANGED gatherVars
    /\ UNCHANGED typeVars
    /\ UNCHANGED loopVars
    /\ UNCHANGED routerVars

UnusedDelete ==
    /\ pc = "unused_delete"
    /\ IF pending = <<>>
       THEN /\ target' = NextGuild(target)
            /\ pc' = IF NextGuild(target) = 0 THEN "done" ELSE "unused_guild"
            /\ UNCHANGED <<remoteGlobal, remoteGuild, remotePerms, nextId, ci, gi, base,
                           api_command, api_permissions, global_command, data, pending, decl,
                           log, retries>>
       ELSE LET call == IF target = 0 THEN "delete_global_command" ELSE "delete_guild_command"
                id   == Head(pending).id
            IN  \/ RateLimited(call, target, id, None)
                \/ /\ Answered(call, target, id, None, 200, None)
                   /\ IF target = 0
                      THEN /\ remoteGlobal' = RemoteDelete(remoteGlobal, id)
                           /\ UNCHANGED remoteGuild
                      ELSE /\ remoteGuild' = [remoteGuild EXCEPT ![target] = RemoteDelete(@, id)]
                           /\ UNCHANGED remoteGlobal
                   /\ pending' = Tail(pending)
                   /\ UNCHANGED <<remotePerms, nextId, pc, ci, gi, target, base, api_command,
                                  api_permissions, global_command, data, decl>>
    /\ UNCHANGED <<run, remote0, delete_unused, forbidden>>
    /\ UNCHANGED gatherVars
    /\ UNCHANGED typeVars
    /\ UNCHANGED loopVars
    /\ UNCHANGED routerVars

\* the run is over; the next one may start
Finish ==
    /\ pc = "done"
    /\ pc' = "idle"
    /\ target' = 0
    /\ UNCHANGED <<decl, delete_unused, forbidden, remoteGlobal, remoteGuild, remotePerms,
                   nextId, ci, gi, base, api_command, api_permissions, global_command, data,
                   pending, log, retries, run, remote0>>
    /\ UNCHANGED gatherVars
    /\ UNCHANGED typeVars
    /\ UNCHANGED loopVars
    /\ UNCHANGED routerVars

(***************************************************************************)
(* Declarations and remote states the runs start from.                     *)
(***************************************************************************)
Pong    == <<"p","o","n","g">>
OldName == <<"o","l","d">>
ArgName == <<"a","r","g">>

GuildPermissionDicts ==
    { None,
      Some(<<>>),
      Some(<<[key |-> 1, val |-> P1]>>),
      Some(<<[key |-> 1, val |-> P1 \o P2]>>),
      Some(<<[key |-> 1, val |-> P1], [key |-> 2, val |-> P2]>>) }

Declarations ==
    { <<SlashCommand(Callback, Ping, None, None, <<>>, None, None)>> }
    \cup { <<SlashCommand(Callback, Ping, None, None, <<1>>, Some(TRUE), p)>> :
             p \in GuildPermissionDicts }
    \cup { <<SlashCommand(Callback, Ping, None, None, <<1, 2>>, Some(TRUE), p)>> :
             p \in GuildPermissionDicts \ {Some(<<>>)} }
    \cup { <<SlashCommand(Callback, Ping, None, None, <<>>, None, None),
             SlashCommand(Callback, MathRaw, None, None, <<1>>, Some(TRUE), None)>> }

\* the payloads a remote command may have been created from
PingPayload  == to_dict(SlashCommand(Callback, Ping, None, None, <<>>, None, None))
OtherDescription == to_dict(SlashCommand(Callback, Ping, Some(Pong), None, <<>>, Some(TRUE), None))
OtherOptions == to_dict(SlashCommand(Callback, Ping, None, Some(<<SlashOption(OptString, ArgName, None, TRUE, None, FALSE, FALSE, None)>>), <<>>, Some(TRUE), None))
OtherPermission == to_dict(SlashCommand(Callback, Ping, None, None, <<>>, Some(FALSE), None))
OtherType    == to_dict(BaseCommand(User, Callback, Ping, None, None, <<>>, Some(TRUE), None))
OldPayload   == to_dict(SlashCommand(Callback, OldName, None, None, <<>>, Some(TRUE), None))

WithId(payload, id) == [id |-> id] @@ payload

RemoteGlobals ==
    { <<>>, <<WithId(OldPayload, 11)>>, <<WithId(PingPayload, 10), WithId(OldPayload, 11)>> }
    \cup { <<WithId(p, 10)>> :
             p \in {PingPayload, OtherDescription, OtherOptions, OtherPermission, OtherType} }

RemoteGuilds1 ==
    { [list |-> <<>>, perms |-> <<>>],
      [list |-> <<WithId(OldPayload, 21)>>, perms |-> <<>>],
      [list |-> <<WithId(PingPayload, 20)>>, perms |-> <<>>],
      [list |-> <<WithId(PingPayload, 20)>>, perms |-> <<[key |-> 20, val |-> P1]>>],
      [list |-> <<WithId(PingPayload, 20)>>, perms |-> <<[key |-> 20, val |-> P2 \o P1]>>],
      [list |-> <<WithId(OtherDescription, 20)>>, perms |-> <<>>] }

RemoteGuilds2 ==
    { [list |-> <<>>, perms |-> <<>>],
      [list |-> <<WithId(PingPayload, 30)>>, perms |-> <<[key |-> 30, val |-> P2]>>] }

Init ==
    /\ commands = <<>>
    /\ subcommands = <<>>
    /\ gathered = <<>>
    /\ prevGathered = <<>>
    /\ gcount = 0
    /\ regs = 0
    /\ decl \in Declarations
    /\ delete_unused \in BOOLEAN
    /\ forbidden \in {{}, {1}}
    /\ remoteGlobal \in RemoteGlobals
    /\ \E r1 \in RemoteGuilds1, r2 \in RemoteGuilds2 :
          /\ remoteGuild = (1 :> r1.list) @@ (2 :> r2.list)
          /\ remotePerms = (1 :> r1.perms) @@ (2 :> r2.perms)
    /\ nextId = 40
    /\ pc = "idle"
    /\ ci = 0
    /\ gi = 0
    /\ target = 0
    /\ base = None
    /\ api_command = None
    /\ api_permissions = None
    /\ global_command = None
    /\ data = None
    /\ pending = <<>>
    /\ log = <<>>
    /\ retries = 0
    /\ run = 0
    /\ remote0 = [global |-> <<>>, guild |-> [g \in Guilds |-> <<>>],
                  perms |-> [g \in Guilds |-> <<>>]]
    /\ RouterIdle
    /\ ready = TRUE
    /\ TypesIdle
    /\ LoopIdle

Next ==
    \/ StartSync
    \/ SyncLoop
    \/ CreateCommand
    \/ AddGlobalLookup
    \/ AddGlobalCreate
    \/ AddGlobalEdit
    \/ AddGuildLookup
    \/ AddGuildGetPermissions
    \/ AddGuildGlobalLookup
    \/ AddGuildDeleteGlobal
    \/ AddGuildCreate
    \/ AddGuildEdit
    \/ UpdateCommandPermissions
    \/ UnusedList
    \/ UnusedDelete
    \/ Finish

Spec == Init /\ [][Next]_vars

\* a step of a run that has started: the event loop resumes the coroutine of the run
\* whenever the request or the wait it is suspended on is over
SyncStep ==
    \/ SyncLoop
    \/ CreateCommand
    \/ AddGlobalLookup
    \/ AddGlobalCreate
    \/ AddGlobalEdit
    \/ AddGuildLookup
    \/ AddGuildGetPermissions
    \/ AddGuildGlobalLookup
    \/ AddGuildDeleteGlobal
    \/ AddGuildCreate
    \/ AddGuildEdit
    \/ UpdateCommandPermissions
    \/ UnusedList
    \/ UnusedDelete
    \/ Finish

\* the runs under a remote API that answers every request and a handle_rate_limit that
\* returns after its wait: a run that can take a step takes one.  The remote answers 429
\* at most MaxRetries times in a run.
SpecLive == Init /\ [][Next]_vars /\ WF_vars(SyncStep)

(***************************************************************************)
(* Runs on the event loop.  on_connect is a listener, so the client starts *)
(* a task for it at every connect; add_cog and remove_cog start a task for *)
(* the run they ask for.  A task executes until it awaits a request, and   *)
(* another task may be resumed before the answer comes.  The variables of  *)
(* the synchronisation hold the locals of the run that is executing, tasks *)
(* holds the locals of the others.                                         *)
(***************************************************************************)
\* Slash(client, auto_sync=True, sync_on_cog=True)
auto_sync   == TRUE
sync_on_cog == TRUE

\* the locals of the run that is executing
Locals ==
    [pc |-> pc, ci |-> ci, gi |-> gi, target |-> target, base |-> base,
     api_command |-> api_command, api_permissions |-> api_permissions,
     global_command |-> global_command, data |-> data, pending |-> pending, log |-> log,
     retries |-> retries]

\* the locals of a run that has not issued a request: in the sleep of on_connect ("sleep"),
\* or about to enter the loop over the declared commands ("sync")
NewRun(at) ==
    [pc |-> at, ci |-> 1, gi |-> 0, target |-> 0, base |-> None, api_command |-> None,
     api_permissions |-> None, global_command |-> None, data |-> None, pending |-> <<>>,
     log |-> <<>>, retries |-> 0]

\* the run has issued a request and awaits the answer
Awaiting(c) ==
    \/ c.pc \in {"sleep", "add_global_command", "create_global_command", "edit_global_command",
                 "add_guild_command", "get_command_permissions", "get_global_api_command",
                 "delete_global_command", "unused_global", "unused_guild"}
    \/ /\ c.pc \in {"create_guild_command", "edit_guild_command", "update_command_permissions"}
       /\ ~c.base.v.permissions.none
    \/ /\ c.pc = "unused_delete"
       /\ c.pending # <<>>

\* the run is over (or there was none)
Over(c) == c.pc \in {"idle", "done", "error"}

\* on_connect, started as a task by the client: the extension is ready, and after the
\* sleep the run begins
OnConnectTask ==
    /\ run < MaxRuns
    /\ auto_sync
    /\ ready' = TRUE
    /\ run' = run + 1
    /\ tasks' = Append(tasks, NewRun("sleep"))
    /\ UNCHANGED <<decl, delete_unused, forbidden, remoteGlobal, remoteGuild, remotePerms,
                   nextId, pc, ci, gi, target, base, api_command, api_permissions,
                   global_command, data, pending, log, retries, remote0>>
    /\ UNCHANGED <<auto_defer, listening_components, component_listeners, interaction,
                   handled, trace, raised>>
    /\ UNCHANGED gatherVars
    /\ UNCHANGED typeVars

\* add_cog_override / remove_cog_override for a cog that holds no application command:
\* once ready, loop.create_task(self.sync_commands(self.delete_unused))
CogOverride ==
    /\ run < MaxRuns
    /\ ready
    /\ sync_on_cog
    /\ run' = run + 1
    /\ tasks' = Append(tasks, NewRun("sync"))
    /\ UNCHANGED <<decl, delete_unused, forbidden, remoteGlobal, remoteGuild, remotePerms,
                   nextId, pc, ci, gi, target, base, api_command, api_permissions,
                   global_command, data, pending, log, retries, remote0>>
    /\ UNCHANGED routerVars
    /\ UNCHANGED gatherVars
    /\ UNCHANGED typeVars

\* on_connect: `await asyncio.sleep(_or(self.wait_sync, 1))` is over
Slept ==
    /\ pc = "sleep"
    /\ pc' = "sync"
    /\ UNCHANGED <<decl, delete_unused, forbidden, remoteGlobal, remoteGuild, remotePerms,
                   nextId, ci, gi, target, base, api_command, api_permissions,
                   global_command, data, pending, log, retries, run, remote0>>
    /\ UNCHANGED routerVars
    /\ UNCHANGED gatherVars
    /\ UNCHANGED typeVars
    /\ UNCHANGED loopVars

\* the run that is executing awaits or is over, and the event loop resumes run i
ResumeRun(i) ==
    /\ i \in 1..Len(tasks)
    /\ Awaiting(Locals) \/ Over(Locals)
    /\ ~Over(tasks[i])
    /\ pc' = tasks[i].pc
    /\ ci' = tasks[i].ci
    /\ gi' = tasks[i].gi
    /\ target' = tasks[i].target
    /\ base' = tasks[i].base
    /\ api_command' = tasks[i].api_command
    /\ api_permissions' = tasks[i].api_permissions
    /\ global_command' = tasks[i].global_command
    /\ data' = tasks[i].data
    /\ pending' = tasks[i].pending
    /\ log' = tasks[i].log
    /\ retries' = tasks[i].retries
    /\ tasks' = [tasks EXCEPT ![i] = Locals]
    /\ UNCHANGED <<decl, delete_unused, forbidden, remoteGlobal, remoteGuild, remotePerms,
                   nextId, run, remote0>>
    /\ UNCHANGED routerVars
    /\ UNCHANGED gatherVars
    /\ UNCHANGED typeVars

\* one declaration that create_command leaves as it is (no guild_permissions), global
\* or for one guild
DeclarationsRuns ==
    { d \in Declarations :
        /\ Len(d) = 1
        /\ Len(d[1].guild_ids) <= 1
        /\ d[1].guild_permissions.none }

\* the remote commands the runs start from: none, ping as declared next to an undeclared
\* command, ping with another description
RemoteGlobalsRuns ==
    { <<>>, <<WithId(PingPayload, 10), WithId(OldPayload, 11)>>,
      <<WithId(OtherDescription, 10)>> }
RemoteGuildsRuns == { <<>>, <<WithId(OtherDescription, 20)>> }

InitRuns ==
    /\ commands = <<>>
    /\ subcommands = <<>>
    /\ gathered = <<>>
    /\ prevGathered = <<>>
    /\ gcount = 0
    /\ regs = 0
    /\ decl \in DeclarationsRuns
    /\ delete_unused \in BOOLEAN
    /\ forbidden = {}
    /\ remoteGlobal \in RemoteGlobalsRuns
    /\ \E list \in RemoteGuildsRuns : remoteGuild = (1 :> list) @@ (2 :> <<>>)
    /\ remotePerms = (1 :> <<>>) @@ (2 :> <<>>)
    /\ nextId = 40
    /\ pc = "idle"
    /\ ci = 0
    /\ gi = 0
    /\ target = 0
    /\ base = None
    /\ api_command = None
    /\ api_permissions = None
    /\ global_command = None
    /\ data = None
    /\ pending = <<>>
    /\ log = <<>>
    /\ retries = 0
    /\ run = 0
    /\ remote0 = [global |-> <<>>, guild |-> [g \in Guilds |-> <<>>],
                  perms |-> [g \in Guilds |-> <<>>]]
    /\ RouterIdle
    /\ ready = FALSE
    /\ TypesIdle
    /\ LoopIdle

NextRuns ==
    \/ OnConnectTask
    \/ CogOverride
    \/ \E i \in 1..(MaxRuns + 1) : ResumeRun(i)
    \/ Slept
    \/ SyncLoop
    \/ CreateCommand
    \/ AddGlobalLookup
    \/ AddGlobalCreate
    \/ AddGlobalEdit
    \/ AddGuildLookup
    \/ AddGuildGetPermissions
    \/ AddGuildGlobalLookup
    \/ AddGuildDeleteGlobal
    \/ AddGuildCreate
    \/ AddGuildEdit
    \/ UpdateCommandPermissions
    \/ UnusedList
    \/ UnusedDelete
    \/ Finish

SpecRuns == InitRuns /\ [][NextRuns]_vars

(***************************************************************************)
(* The interaction routers.  A handler run is [trace, raised]: what the    *)
(* handler did, in order, and the exception it left with (None when it     *)
(* returned).  A gateway message is [t, d]; the interaction d carries its  *)
(* type, the user (with whether a DM channel is already open), and, by     *)
(* type, the command data or the component data and the message.           *)
(***************************************************************************)
PING                             == 1   \* InteractionType.PING
APPLICATION_COMMAND              == 2   \* InteractionType.APPLICATION_COMMAND
MESSAGE_COMPONENT                == 3   \* the literal in _on_component_response
APPLICATION_COMMAND_AUTOCOMPLETE == 4   \* InteractionType.APPLICATION_COMMAND_AUTOCOMPLETE
Button                           == 2   \* ComponentType.Button

\* entries of a trace
Sent(what)             == [kind |-> "request", what |-> what]
Dispatched(event)      == [kind |-> "dispatch", what |-> event]
Called(kind, f, id, kwargs) == [kind |-> kind, what |-> f.name, id |-> id, kwargs |-> kwargs]

Returned      == [trace |-> <<>>, raised |-> None]
Raise(error)  == [trace |-> <<>>, raised |-> Some(error)]
Did(entries)  == [trace |-> entries, raised |-> None]

\* r, and s after it unless r raised
Then(r, s) == IF r.raised.none THEN [trace |-> r.trace \o s.trace, raised |-> s.raised] ELSE r

\* `await f(...)`: the callback starts, and raises or returns
Await(kind, f, id, kwargs) ==
    [trace  |-> <<Called(kind, f, id, kwargs)>>,
     raised |-> IF f.raises THEN Some("CallbackError") ELSE None]

\* as NoAsyncCallback, accepting every callback
NoAsyncCallbackNever(callback) == FALSE

\* BaseCommand.__init__ and add_listening_component: the callback is no coroutine function
NoAsyncCallback(callback) == ~callback.none /\ ~callback.v.coroutine

\* as OptionParameterError, accepting every callback
OptionParameterErrorNever(callback, options) == None

\* BaseCommand.__init__, the loop over self.options: the exception of the first option that
\* the callback has no parameter for, or that is not required while its parameter has no
\* default
OptionParameterError(callback, options) ==
    LET sig         == callback.signature
        missing(op) == \A i \in 1..Len(sig) : sig[i].name # op.name
        bare(op)    == /\ ~GetDef(op, "required", FALSE)
                       /\ \E i \in 1..Len(sig) : sig[i].name = op.name /\ sig[i].default.none
        bad         == {k \in 1..Len(options) : missing(options[k]) \/ bare(options[k])}
    IN  IF bad = {} THEN None
        ELSE LET k == CHOOSE k \in bad : \A j \in bad : k <= j
             IN  IF missing(options[k]) THEN Some("MissingOptionParameter")
                 ELSE Some("OptionalOptionParameter")

\* BaseCommand.__init__, the options made from the parameters after the context: the hint
\* is the annotation, else the type of the default, else the name; `raise InvalidArgument`
\* names an exception the module does not import
GeneratedOptions(callback) ==
    LET sig     == callback.signature
        rest    == [i \in 1..(Len(sig) - 1) |-> sig[i + 1]]
        hint(q) == IF ~q.annotation.none THEN q.annotation.v
                   ELSE IF ~q.default.none THEN q.default.v
                   ELSE StrHint(q.name)
    IN  [error   |-> IF \E i \in DOMAIN rest : any_to_type(hint(rest[i])).none
                     THEN Some("NameError") ELSE None,
         options |-> [i \in DOMAIN rest |->
                        SlashOption(any_to_type(hint(rest[i])).v, rest[i].name, None,
                                    rest[i].default.none, None, FALSE, FALSE, None)]]

\* the exception the constructor of a command ends with: ContextCommand.__init__ wants two
\* parameters, BaseCommand.__init__ a coroutine function and a parameter for every option
DeclarationError(command_type, callback, options) ==
    IF callback.none THEN None
    ELSE IF command_type # Slash /\ callback.v.parameters < 2
    THEN Some("CallbackMissingContextCommandParameters")
    ELSE IF NoAsyncCallback(callback) THEN Some("NoAsyncCallback")
    ELSE IF ~OptionParameterError(callback.v, _or(options, <<>>)).none
    THEN OptionParameterError(callback.v, _or(options, <<>>))
    ELSE IF command_type = Slash /\ _or(options, <<>>) = <<>>
    THEN GeneratedOptions(callback.v).error
    ELSE None

\* the options the constructor leaves the command with
DeclaredOptions(command_type, callback, options) ==
    IF command_type = Slash /\ _or(options, <<>>) = <<>> /\ ~callback.none
    THEN Some(GeneratedOptions(callback.v).options)
    ELSE options

\* `if user.dm_channel is None: await user.create_dm()`
CreateDm(user) == IF user.dm_channel THEN Returned ELSE Did(<<Sent("create_dm")>>)

\* as AutoDefer, sending nothing
AutoDeferNever(defer) == Returned

\* `if self.auto_defer[0] is True: await interaction.defer(self.auto_defer[1])`
AutoDefer(defer) == IF defer[1] = TRUE THEN Did(<<Sent("defer")>>) ELSE Returned

\* whether the interaction addresses a subcommand
IsSubcommandPath(inner) ==
    LET ops == GetDef(inner, "options", <<>>)
    IN  ops # <<>> /\ ops[1].type \in {SUB_COMMAND, SUB_COMMAND_GROUP}

\* as Descend, taking the first option for the subcommand and leaving its options behind
DescendNowhere(op) == [type |-> SUB_COMMAND, name |-> op.name]

\* `while op["type"] != 1: op = op["options"][0]`
RECURSIVE Descend(_)
Descend(op) == IF op.type # SUB_COMMAND THEN Descend(op.options[1]) ELSE op

\* CommandCache.get_command_for: the command the interaction's name, type and
\* subcommand path lead to, or None
get_command_for(cmds, subs, d) ==
    LET inner == d.data
        ops   == GetDef(inner, "options", <<>>)
    IN  IF inner.type = Slash /\ IsSubcommandPath(inner)
        THEN IF ~DictHas(subs, inner.name) THEN None
             ELSE LET entries == DictGet(subs, inner.name)
                      key     == ops[1].name
                  IN  IF ~DictHas(entries, key) THEN None
                      ELSE LET e == DictGet(entries, key)
                           IN  IF ops[1].type = SUB_COMMAND
                               THEN IF e.isdict THEN None ELSE Some(e.sub)
                               ELSE IF ~e.isdict \/ GetDef(ops[1], "options", <<>>) = <<>>
                                    THEN None
                                    ELSE LET n == ops[1].options[1].name
                                         IN  IF DictHas(e.members, n)
                                             THEN Some(DictGet(e.members, n))
                                             ELSE None
        ELSE IF DictHas(cmds, inner.name) /\ DictGet(cmds, inner.name).json.type = inner.type
             THEN Some(DictGet(cmds, inner.name))
             ELSE None

\* handle_options: the dict option name -> resolved value; primitive values pass through
handle_options(options) == [i \in 1..Len(options) |-> [key |-> options[i].name, val |-> options[i].value]]

\* as InvokeCommand, calling nothing
InvokeCommandNever(command, kwargs) == Returned

\* `await command.callback(context, ...)`: commands of this module have no `invoke`
InvokeCommand(command, kwargs) ==
    IF command.callback.none THEN Returned
    ELSE Await("callback", command.callback.v, 0, kwargs)

\* `{"name": x[0], "value": x[1]} if isinstance(x, tuple) else x`
ChoiceDict(x) == IF "tuple" \in DOMAIN x THEN [name |-> x.tuple[1], value |-> x.tuple[2]] ELSE x

\* http.respond_to(..., Autocomplete_result, {"choices": [...]})
RespondChoices(choices) ==
    [kind |-> "request", what |-> "autocomplete_result",
     choices |-> [i \in 1..Len(choices) |-> ChoiceDict(choices[i])]]

\* _on_slash_response, the autocomplete part
Autocomplete(cmds, subs, d) ==
    IF d.data.type # Slash THEN Returned
    ELSE LET command == get_command_for(cmds, subs, d)
             raw     == IF IsSubcommandPath(d.data)
                        THEN IF command.none THEN <<>>
                             ELSE GetDef(Descend(d.data.options[1]), "options", <<>>)
                        ELSE GetDef(d.data, "options", <<>>)
             focused == SelectSeq(raw, LAMBDA x : GetDef(x, "focused", FALSE))
         IN  IF command.none THEN Returned
             ELSE IF focused = <<>> THEN Raise("TypeError")
             ELSE LET mine == SelectSeq(OptionsOf(command.v.json),
                                        LAMBDA o : o.name = focused[1].name)
                  IN  IF mine = <<>> THEN Raise("AttributeError")
                      ELSE IF ~DictHas(command.v.choice_generators, mine[1].name)
                      THEN Raise("TypeError")
                      ELSE LET generator == DictGet(command.v.choice_generators, mine[1].name)
                           IN  Did(<<[kind |-> "choice_generator", what |-> generator.name,
                                      option |-> mine[1].name],
                                     RespondChoices(generator.choices)>>)

\* _on_slash_response from `interaction = Interaction(...)` on
RouteCommand(cmds, subs, defer, d) ==
    LET command == get_command_for(cmds, subs, d)
        inner   == d.data
        first   == Then(AutoDefer(defer), Did(<<Dispatched("interaction_received")>>))
    IN  IF inner.type = Slash /\ ~IsSubcommandPath(inner) /\ ~command.none
        THEN LET options == IF "options" \in DOMAIN inner THEN handle_options(inner.options)
                            ELSE <<>>
             IN  Then(first, Then(Did(<<Dispatched("slash_command")>>),
                                  InvokeCommand(command.v, options)))
        ELSE IF inner.type = User /\ ~command.none
        THEN Then(first, Then(Did(<<Dispatched("context_command")>>),
                              InvokeCommand(command.v, <<>>)))
        ELSE IF ~command.none
        THEN LET op      == Descend(inner.options[1])
                 options == handle_options(GetDef(op, "options", <<>>))
             IN  Then(first, Then(Did(<<Dispatched("slash_command")>>),
                                  InvokeCommand(command.v, options)))
        ELSE first

\* Slash._on_slash_response
_on_slash_response(msg, cmds, subs, defer) ==
    IF msg.t # "INTERACTION_CREATE" THEN Returned
    ELSE IF msg.d.type \notin {PING, APPLICATION_COMMAND, APPLICATION_COMMAND_AUTOCOMPLETE}
    THEN Returned
    ELSE IF "user" \notin DOMAIN msg.d THEN Raise("KeyError")
    ELSE Then(CreateDm(msg.d.user),
              IF msg.d.type = APPLICATION_COMMAND_AUTOCOMPLETE
              THEN Autocomplete(cmds, subs, msg.d)
              ELSE RouteCommand(cmds, subs, defer, msg.d))

\* ListeningComponent(callback, messages, users, component_type, check, custom_id); id tells
\* the objects apart, in the order they were made
ListeningComponent(callback, messages, users, component_type, check, custom_id, id) ==
    [callback |-> callback, messages |-> messages, users |-> users,
     component_type |-> component_type, check |-> check, custom_id |-> custom_id, id |-> id]

\* whether x is one of the elements of the list, or the list is None
Allows(list, x) == list.none \/ \E i \in 1..Len(list.v) : list.v[i] = x

\* as Passes, without the message filter
PassesAnyMessage(lc, component) ==
    /\ Allows(lc.users, component.user)
    /\ Allows(lc.component_type, component.component_type)
    /\ lc.check

\* the filters of a listening component, in order: messages, users, component type, check
Passes(lc, component) ==
    /\ Allows(lc.messages, component.message)
    /\ Allows(lc.users, component.user)
    /\ Allows(lc.component_type, component.component_type)
    /\ lc.check

\* ListeningComponent.invoke
InvokeListening(lc, component) ==
    IF Passes(lc, component) THEN Await("listener", lc.callback, lc.id, <<>>) ELSE Returned

\* as InvokeList, from the last listener registered to the first
RECURSIVE InvokeListReversed(_, _)
InvokeListReversed(list, component) ==
    IF list = <<>> THEN Returned
    ELSE Then(InvokeListening(list[Len(list)], component),
              InvokeListReversed(SubSeq(list, 1, Len(list) - 1), component))

\* `for listening_component in listening_components: await listening_component.invoke(component)`
RECURSIVE InvokeList(_, _)
InvokeList(list, component) ==
    IF list = <<>> THEN Returned
    ELSE Then(InvokeListening(Head(list), component), InvokeList(Tail(list), component))

\* Listener._call_listeners
CallListeners(listener, component) == Await("message_listener", listener, 0, <<>>)

\* as _on_component_response without `if data["type"] != 3: return`, up to the dispatch of
\* interaction_received
_on_component_responseUnfiltered(msg, table, scoped, defer) ==
    IF msg.t # "INTERACTION_CREATE" THEN Returned
    ELSE IF "user" \notin DOMAIN msg.d THEN Raise("KeyError")
    ELSE Then(CreateDm(msg.d.user),
         Then(AutoDefer(defer), Did(<<Dispatched("interaction_received")>>)))

\* Components._on_component_response
_on_component_response(msg, table, scoped, defer) ==
    IF msg.t # "INTERACTION_CREATE" THEN Returned
    ELSE IF msg.d.type # MESSAGE_COMPONENT THEN Returned
    ELSE LET d         == msg.d
             component == [custom_id |-> d.data.custom_id,
                           component_type |-> d.data.component_type,
                           message |-> d.message.id, user |-> d.user.id]
             found     == \E i \in 1..Len(d.message.components) :
                              d.message.components[i] = d.data.custom_id
             listeners == IF DictHas(table, d.data.custom_id)
                          THEN InvokeList(DictGet(table, d.data.custom_id), component)
                          ELSE Returned
             listener  == IF DictHas(scoped, d.message.id)
                          THEN CallListeners(DictGet(scoped, d.message.id), component)
                          ELSE Returned
         IN  Then(CreateDm(d.user),
             Then(AutoDefer(defer),
             Then(Did(<<Dispatched("interaction_received"), Dispatched("component")>>),
             Then(IF found THEN Returned ELSE Raise("UnboundLocalError"),
             Then(Did(<<Dispatched(IF d.data.component_type = Button THEN "button_press"
                                   ELSE "menu_select")>>),
             Then(listeners, listener))))))

(***************************************************************************)
(* Registration and delivery.  Every operation leaves in `raised` the      *)
(* exception it ended with; a registration clears the record of the last   *)
(* handler run.                                                            *)
(***************************************************************************)
OnOk         == Function("on_ok", TRUE, FALSE, <<Ctx>>)
OnFail       == Function("on_fail", TRUE, TRUE, <<Ctx>>)
NotAsync     == Function("not_async", FALSE, FALSE, <<Ctx, Param(<<"u", "s", "e", "r">>, None, None)>>)
NoParameters == Function("no_parameters", TRUE, FALSE, <<>>)
OnMessage    == Function("on_message", TRUE, FALSE, <<Ctx>>)
OnUser       == Function("on_user", TRUE, FALSE, <<Ctx, Param(<<"u", "s", "e", "r">>, None, None)>>)
OnArg        == Function("on_arg", TRUE, FALSE, <<Ctx, Param(<<"a", "r", "g">>, None, None)>>)
OnOptional   == Function("on_optional", TRUE, FALSE, <<Ctx, Param(<<"a", "r", "g">>, None, Some(ClassHint("str")))>>)

CustomIds       == {"X", "Y"}
MessageIds      == {42, 43}
Pang            == <<"p", "a", "n", "g">>
PongRaw         == <<"P", "o", "n", "g">>
Suggest         == Generator("suggest", <<TupleChoice("one", "1"), [name |-> "two", value |-> "2"],
                                          TupleChoice("three", "3")>>)
AutocompleteArg == WithGenerator(SlashOption(OptString, ArgName, None, TRUE, None, TRUE, TRUE, None), Suggest)
UnsuggestedArg  == SlashOption(OptString, ArgName, None, TRUE, None, TRUE, FALSE, None)
OptionalArg     == SlashOption(OptString, ArgName, None, FALSE, None, FALSE, FALSE, None)

\* the commands, subcommands and listeners that get registered
CommandChoices ==
    { [type |-> Slash, callback |-> OnOk, options |-> None],
      [type |-> Slash, callback |-> OnFail, options |-> None],
      [type |-> Slash, callback |-> NotAsync, options |-> None],
      [type |-> Slash, callback |-> OnArg, options |-> Some(<<AutocompleteArg>>)],
      [type |-> Slash, callback |-> OnOk, options |-> Some(<<AutocompleteArg>>)],
      [type |-> Slash, callback |-> OnArg, options |-> Some(<<UnsuggestedArg>>)],
      [type |-> Slash, callback |-> OnArg, options |-> Some(<<OptionalArg>>)],
      [type |-> Slash, callback |-> OnOptional, options |-> Some(<<OptionalArg>>)],
      [type |-> Slash, callback |-> WithAliases(OnOk, <<Pong, Pang>>), options |-> None],
      [type |-> Slash, callback |-> WithAliases(OnOk, <<PongRaw>>), options |-> None],
      [type |-> User, callback |-> OnUser, options |-> None],
      [type |-> User, callback |-> NotAsync, options |-> None] }
SubcommandChoices ==
    { [base_names |-> <<MathRaw>>, callback |-> OnOk],
      [base_names |-> <<MathRaw>>, callback |-> NotAsync],
      [base_names |-> <<MathRaw, OpsName>>, callback |-> OnOk] }
ListenerChoices ==
    { [custom_id |-> "X", callback |-> OnOk, messages |-> None],
      [custom_id |-> "X", callback |-> OnOk, messages |-> Some(<<42>>)],
      [custom_id |-> "X", callback |-> OnFail, messages |-> None],
      [custom_id |-> "X", callback |-> NotAsync, messages |-> None],
      [custom_id |-> "X", callback |-> NoParameters, messages |-> None],
      [custom_id |-> "Y", callback |-> OnOk, messages |-> None] }

NoHandlerRun ==
    /\ interaction' = None
    /\ handled' = None
    /\ trace' = <<>>

\* BaseCommand.aliases: __aliases__, which the constructor takes from the callback and
\* copy() hands on
AliasesOf(c) == IF c.callback.none THEN None ELSE c.callback.v.aliases

\* BaseCommand.is_alias
is_alias(c) ==
    /\ ~AliasesOf(c).none
    /\ \E i \in 1..Len(AliasesOf(c).v) : AliasesOf(c).v[i] = c.json.name

\* `cur = base.copy(); cur.name = a`
Clone(command, a) == [command EXCEPT !.json.name = IF command.json.type = Slash THEN format_name(a) ELSE a]

\* Slash._add_to_cache(base): a clone for every alias, each added as a base, then the
\* command itself; CommandCache.add files a command under its name
RECURSIVE AddClones(_, _, _)
AddClones(cmds, command, aliases) ==
    IF aliases = <<>> THEN cmds
    ELSE AddClones(DictSet(cmds, Clone(command, Head(aliases)).json.name, Clone(command, Head(aliases))),
                   command, Tail(aliases))

_add_to_cache(cmds, command) ==
    LET cloned == IF AliasesOf(command).none THEN cmds ELSE AddClones(cmds, command, AliasesOf(command).v)
    IN  DictSet(cloned, command.json.name, command)

\* the requests of `await create_command(command)` for a global command, each answered
\* 200: the lookup of add_global_command, then the create or the edit it decides on
CreateRequests(command) ==
    LET api == ApiCommand(remoteGlobal, command.json.name, command.json.type)
    IN  <<Request("get_global_commands", 0, 0, None, 200, Some(remoteGlobal))>>
        \o (IF api.none
            THEN <<Request("create_global_command", 0, 0, Some(to_dict(command)), 200, None)>>
            ELSE IF ~CommandEqDict(command, api.v)
            THEN <<Request("edit_global_command", 0, api.v.id, Some(to_dict(command)), 200, None)>>
            ELSE <<>>)

\* the coroutine add_command returns with api=True, awaited by its caller
AwaitCreateCommand(command) ==
    LET api == ApiCommand(remoteGlobal, command.json.name, command.json.type)
    IN  /\ log' = log \o CreateRequests(command)
        /\ remoteGlobal' = IF api.none THEN RemoteCreate(remoteGlobal, to_dict(command), nextId)
                           ELSE IF ~CommandEqDict(command, api.v)
                           THEN RemoteEdit(remoteGlobal, api.v.id, to_dict(command))
                           ELSE remoteGlobal
        /\ nextId' = IF api.none THEN nextId + 1 ELSE nextId
        /\ UNCHANGED <<decl, delete_unused, forbidden, remoteGuild, remotePerms, pc, ci, gi,
                       target, base, api_command, api_permissions, global_command, data,
                       pending, retries, run, remote0>>

\* `if self.ready is False: raise ClientException(...)` with the check left out
NotReadyErrorNever(api) == None

\* add_command: `if api is True: if self.ready is False: raise ClientException(...)`
NotReadyError(api) == IF api /\ ~ready THEN Some("ClientException") ELSE None

\* Slash.add_command, add_user_command: build the command, then _add_to_cache; with
\* api=True the remote command is created too, once the extension is ready
AddCommand(command_type, name, callback, options, api) ==
    /\ regs < MaxReg
    /\ IF ~DeclarationError(command_type, callback, options).none
       THEN /\ raised' = DeclarationError(command_type, callback, options)
            /\ UNCHANGED commands
            /\ UNCHANGED syncVars
       ELSE LET c == BaseCommand(command_type, callback, name, None,
                                 DeclaredOptions(command_type, callback, options),
                                 <<>>, Some(TRUE), None)
            IN  /\ commands' = _add_to_cache(commands, c)
                /\ raised' = NotReadyError(api)
                /\ IF api /\ NotReadyError(api).none
                   THEN AwaitCreateCommand(c)
                   ELSE UNCHANGED syncVars
    /\ regs' = regs + 1
    /\ gcount' = 0
    /\ NoHandlerRun
    /\ UNCHANGED <<subcommands, gathered, prevGathered>>
    /\ UNCHANGED <<ready, auto_defer, listening_components, component_listeners>>
    /\ UNCHANGED typeVars
    /\ UNCHANGED loopVars

\* the connect event, up to where on_connect first waits: the http client is made and
\* the extension is ready
OnConnect ==
    /\ ~ready
    /\ ready' = TRUE
    /\ UNCHANGED <<auto_defer, listening_components, component_listeners, interaction,
                   handled, trace, raised>>
    /\ UNCHANGED gatherVars
    /\ UNCHANGED syncVars
    /\ UNCHANGED typeVars
    /\ UNCHANGED loopVars

\* the subcommands with x filed under its base (and group)
WithSubcommand(subs, x) ==
    LET b  == x.base_names[1]
        d0 == IF DictHas(subs, b) THEN subs ELSE DictSet(subs, b, <<>>)
    IN  IF Len(x.base_names) = 1
        THEN DictSet(d0, b, DictSet(DictGet(d0, b), x.json.name,
                                    [isdict |-> FALSE, sub |-> x, members |-> <<>>]))
        ELSE LET g  == x.base_names[2]
                 e0 == IF DictHas(DictGet(d0, b), g) /\ DictGet(DictGet(d0, b), g).isdict
                       THEN DictGet(DictGet(d0, b), g)
                       ELSE [isdict |-> TRUE, sub |-> x, members |-> <<>>]
             IN  DictSet(d0, b, DictSet(DictGet(d0, b), g,
                        [e0 EXCEPT !.members = DictSet(e0.members, x.json.name, x)]))

\* Slash.add_subcommand
AddSubcommand(base_names, name, callback) ==
    /\ regs < MaxReg
    /\ IF ~DeclarationError(Slash, callback, None).none
       THEN /\ raised' = DeclarationError(Slash, callback, None)
            /\ UNCHANGED subcommands
       ELSE /\ subcommands' = WithSubcommand(subcommands,
                    SlashSubcommand(callback, base_names, name, None,
                                    DeclaredOptions(Slash, callback, None), <<>>,
                                    Some(TRUE), None))
            /\ raised' = None
    /\ regs' = regs + 1
    /\ gcount' = 0
    /\ NoHandlerRun
    /\ UNCHANGED <<commands, gathered, prevGathered>>
    /\ UNCHANGED <<ready, auto_defer, listening_components, component_listeners>>
    /\ UNCHANGED syncVars
    /\ UNCHANGED typeVars
    /\ UNCHANGED loopVars

\* the listening components made so far
RECURSIVE ListenerCount(_)
ListenerCount(table) ==
    IF table = <<>> THEN 0 ELSE Len(Head(table).val) + ListenerCount(Tail(table))

\* Components.add_listening_component
AddListeningComponent(callback, custom_id, messages) ==
    /\ regs < MaxReg
    /\ IF NoAsyncCallback(Some(callback))
       THEN /\ raised' = Some("NoAsyncCallback")
            /\ UNCHANGED listening_components
       ELSE IF callback.parameters < 1
       THEN /\ raised' = Some("MissingListenedComponentParameters")
            /\ UNCHANGED listening_components
       ELSE /\ LET t0 == IF DictHas(listening_components, custom_id)
                         THEN listening_components
                         ELSE DictSet(listening_components, custom_id, <<>>)
                   lc == ListeningComponent(callback, messages, None, None, TRUE, custom_id,
                                            ListenerCount(listening_components) + 1)
               IN  listening_components' =
                       DictSet(t0, custom_id, Append(DictGet(t0, custom_id), lc))
            /\ raised' = None
    /\ regs' = regs + 1
    /\ NoHandlerRun
    /\ UNCHANGED <<commands, subcommands, gathered, prevGathered, gcount>>
    /\ UNCHANGED <<ready, auto_defer, component_listeners>>
    /\ UNCHANGED syncVars
    /\ UNCHANGED typeVars
    /\ UNCHANGED loopVars

\* Components.attach_listener_to: the listener starts listening to the message
AttachListener(message) ==
    /\ ~DictHas(component_listeners, message)
    /\ component_listeners' = DictSet(component_listeners, message, OnMessage)
    /\ raised' = None
    /\ NoHandlerRun
    /\ UNCHANGED <<ready, auto_defer, listening_components>>
    /\ UNCHANGED gatherVars
    /\ UNCHANGED syncVars
    /\ UNCHANGED typeVars
    /\ UNCHANGED loopVars

\* the gateway hands a message to Slash._on_slash_response
OnSlashResponse(msg) ==
    /\ LET r == _on_slash_response(msg, commands, subcommands, auto_defer)
       IN  /\ trace' = r.trace
           /\ raised' = r.raised
    /\ interaction' = Some(msg)
    /\ handled' = Some("slash")
    /\ UNCHANGED <<ready, auto_defer, listening_components, component_listeners>>
    /\ UNCHANGED gatherVars
    /\ UNCHANGED syncVars
    /\ UNCHANGED typeVars
    /\ UNCHANGED loopVars

\* the gateway hands a message to Components._on_component_response
OnComponentResponse(msg) ==
    /\ LET r == _on_component_response(msg, listening_components, component_listeners,
                                       auto_defer)
       IN  /\ trace' = r.trace
           /\ raised' = r.raised
    /\ interaction' = Some(msg)
    /\ handled' = Some("component")
    /\ UNCHANGED <<ready, auto_defer, listening_components, component_listeners>>
    /\ UNCHANGED gatherVars
    /\ UNCHANGED syncVars
    /\ UNCHANGED typeVars
    /\ UNCHANGED loopVars

\* the messages the gateway delivers
Author(dm) == [id |-> 7, dm_channel |-> dm]
StringArg  == [type |-> OptString, name |-> ArgName, value |-> Pong]
CommandData ==
    { [type |-> Slash, name |-> Ping, options |-> <<StringArg>>],
      [type |-> Slash, name |-> Math,
       options |-> <<[type |-> SUB_COMMAND, name |-> AddName]>>],
      [type |-> Slash, name |-> Math,
       options |-> <<[type |-> SUB_COMMAND_GROUP, name |-> OpsName,
                      options |-> <<[type |-> SUB_COMMAND, name |-> AddName,
                                     options |-> <<StringArg>>]>>]>>],
      [type |-> User, name |-> Ping, target_id |-> 7] }
AutocompleteData ==
    { [type |-> Slash, name |-> n, options |-> <<[focused |-> TRUE] @@ StringArg>>] :
        n \in {Ping, Pong} }
Component(custom_id, message) ==
    [component_type |-> Button, custom_id |-> custom_id, message |-> message]
ComponentData == {Component("X", 42), Component("X", 43), Component("Y", 42)}
Interactions ==
    { [type |-> PING] }
    \cup { [type |-> APPLICATION_COMMAND, user |-> Author(dm),
            data |-> [type |-> Slash, name |-> n]] : dm \in BOOLEAN, n \in {Ping, Pong} }
    \cup { [type |-> APPLICATION_COMMAND, user |-> Author(TRUE), data |-> c] :
             c \in CommandData }
    \cup { [type |-> APPLICATION_COMMAND_AUTOCOMPLETE, user |-> Author(TRUE), data |-> c] :
             c \in AutocompleteData }
    \cup { [type |-> MESSAGE_COMPONENT, user |-> Author(TRUE),
            data |-> [component_type |-> c.component_type, custom_id |-> c.custom_id],
            message |-> [id |-> c.message, components |-> <<"X", "Y">>]] :
             c \in ComponentData }
    \cup { [type |-> MESSAGE_COMPONENT, user |-> Author(FALSE),
            data |-> [component_type |-> Button, custom_id |-> "X"],
            message |-> [id |-> 42, components |-> <<"X", "Y">>]] }
GatewayMessages ==
    { [t |-> "MESSAGE_CREATE", d |-> [type |-> PING]] }
    \cup { [t |-> "INTERACTION_CREATE", d |-> d] : d \in Interactions }

InitRouter ==
    /\ commands = <<>>
    /\ subcommands = <<>>
    /\ gathered = <<>>
    /\ prevGathered = <<>>
    /\ gcount = 0
    /\ regs = 0
    /\ SyncIdle
    /\ auto_defer \in {<<FALSE, FALSE>>, <<TRUE, FALSE>>}
    /\ listening_components = <<>>
    /\ component_listeners = <<>>
    /\ interaction = None
    /\ handled = None
    /\ trace = <<>>
    /\ raised = None
    /\ ready = FALSE
    /\ TypesIdle
    /\ LoopIdle

NextRouter ==
    \/ \E c \in CommandChoices : AddCommand(c.type, Ping, Some(c.callback), c.options, FALSE)
    \/ \E c \in SubcommandChoices : AddSubcommand(c.base_names, AddName, Some(c.callback))
    \/ \E c \in ListenerChoices : AddListeningComponent(c.callback, c.custom_id, c.messages)
    \/ AttachListener(42)
    \/ \E msg \in GatewayMessages : OnSlashResponse(msg)
    \/ \E msg \in GatewayMessages : OnComponentResponse(msg)

SpecRouter == InitRouter /\ [][NextRouter]_vars

(***************************************************************************)
(* Registration around the connect event: add_command with and without    *)
(* api=True, before and after on_connect has made the extension ready.     *)
(***************************************************************************)
\* add_user_command takes no api argument
NextApi ==
    \/ \E c \in CommandChoices, api \in BOOLEAN :
            /\ api => c.type = Slash
            /\ AddCommand(c.type, Ping, Some(c.callback), c.options, api)
    \/ OnConnect

SpecApi == InitRouter /\ [][NextApi]_vars

(***************************************************************************)
(* The routers on the event loop.  Both routers are listeners of the       *)
(* gateway event: for every message the client starts one task for each,   *)
(* in the order the messages come.  A task executes until it awaits a      *)
(* request (create_dm, the deferred acknowledgment, a response); the       *)
(* others execute meanwhile.  tasks holds what each task has still to do,  *)
(* trace what the tasks have done, in the order they did it.               *)
(***************************************************************************)
MaxDeliveries == 2    \* gateway messages delivered

\* the task the client starts for a listener: the run of the router on the message
RouterTask(n, router, r) ==
    [delivery |-> n, router |-> router, todo |-> r.trace, raised |-> r.raised,
     started |-> FALSE]

\* what a task does when it is given the loop: everything up to its next request, and
\* the request
RECURSIVE UntilAwait(_)
UntilAwait(todo) ==
    IF todo = <<>> THEN <<>>
    ELSE IF Head(todo).kind = "request" THEN <<Head(todo)>>
    ELSE <<Head(todo)>> \o UntilAwait(Tail(todo))

\* the commands and listeners registered before the messages come
OrderCommands  == { c \in CommandChoices : c.options.none /\ c.callback \in {OnOk, OnFail} }
OrderListeners == { c \in ListenerChoices : c.messages.none /\ c.callback = OnOk }

\* the messages delivered: ping from a user with and without a DM channel, a button
\* from a user with and without one
OrderMessages ==
    { m \in GatewayMessages :
        /\ m.t = "INTERACTION_CREATE"
        /\ \/ /\ m.d.type = APPLICATION_COMMAND
              /\ m.d.data.name = Ping
              /\ m.d.data.type = Slash
              /\ "options" \notin DOMAIN m.d.data
           \/ /\ m.d.type = MESSAGE_COMPONENT
              /\ m.d.data.custom_id = "X"
              /\ m.d.message.id = 42 }

AddCommandBefore ==
    /\ tasks = <<>>
    /\ \E c \in OrderCommands : AddCommand(c.type, Ping, Some(c.callback), c.options, FALSE)

AddListenerBefore ==
    /\ tasks = <<>>
    /\ \E c \in OrderListeners : AddListeningComponent(c.callback, c.custom_id, c.messages)

\* the gateway delivers a message: the client starts a task for each listener, the one
\* of Slash first (add_listener at client.py 135-138, that of Components at 933-936)
Deliver(msg) ==
    /\ Len(tasks) < 2 * MaxDeliveries
    /\ LET n == (Len(tasks) \div 2) + 1
       IN  tasks' = tasks \o
              << RouterTask(n, "slash",
                            _on_slash_response(msg, commands, subcommands, auto_defer)),
                 RouterTask(n, "component",
                            _on_component_response(msg, listening_components,
                                                   component_listeners, auto_defer)) >>
    /\ interaction' = Some(msg)
    /\ UNCHANGED <<ready, auto_defer, listening_components, component_listeners, handled,
                   trace, raised>>
    /\ UNCHANGED gatherVars
    /\ UNCHANGED syncVars
    /\ UNCHANGED typeVars

\* the event loop gives task i the loop: a task starts after those started for it
\* earlier, a task that awaits an answer goes on when the answer is there
RunTask(i) ==
    /\ i \in 1..Len(tasks)
    /\ LET task  == tasks[i]
           block == UntilAwait(task.todo)
           rest  == SubSeq(task.todo, Len(block) + 1, Len(task.todo))
       IN  /\ IF task.started THEN task.todo # <<>>
              ELSE \A j \in 1..(i-1) : tasks[j].started
           /\ trace' = trace \o [k \in 1..Len(block) |-> [delivery |-> task.delivery] @@ block[k]]
           /\ tasks' = [tasks EXCEPT ![i] = [task EXCEPT !.todo = rest, !.started = TRUE]]
           /\ handled' = Some(task.router)
           /\ raised' = IF rest = <<>> THEN task.raised ELSE raised
    /\ UNCHANGED <<ready, auto_defer, listening_components, component_listeners,
                   interaction>>
    /\ UNCHANGED gatherVars
    /\ UNCHANGED syncVars
    /\ UNCHANGED typeVars

NextOrder ==
    \/ AddCommandBefore
    \/ AddListenerBefore
    \/ \E msg \in OrderMessages : Deliver(msg)
    \/ \E i \in 1..(2 * MaxDeliveries) : RunTask(i)

SpecOrder == InitRouter /\ [][NextOrder]_vars

(***************************************************************************)
(* The command model on its own: one operation of SlashPermission,         *)
(* SlashOption or BaseCommand at a time, on arguments drawn from small     *)
(* sets.                                                                   *)
(***************************************************************************)
\* {id: SlashPermission.USER} dicts, as given for allowed and forbidden
IdDicts ==
    { <<>>, <<[key |-> 7, val |-> PermUser]>>, <<[key |-> 8, val |-> PermUser]>>,
      <<[key |-> 7, val |-> PermUser], [key |-> 8, val |-> PermUser]>>,
      <<[key |-> 8, val |-> PermUser], [key |-> 7, val |-> PermUser]>> }
Permissions == { SlashPermission(a, f) : a \in IdDicts, f \in IdDicts }

\* the permission lists the API answers with: the same entries, in any order
PermissionEntries == { [id |-> i, type |-> PermUser, permission |-> b] : i \in {7, 8}, b \in BOOLEAN }
PermissionLists ==
    { <<>> } \cup { <<e>> : e \in PermissionEntries }
    \cup { <<x[1], x[2]>> : x \in { y \in PermissionEntries \X PermissionEntries :
                                      y[1] # y[2] } }

\* `self == o` for a SlashPermission self and a SlashPermission or a dict o
PermissionEq(self, o, is_dict) ==
    /\ operation = "none"
    /\ object' = Some(self)
    /\ argument' = Some(o)
    /\ returned' = Some(IF is_dict THEN PermEqDict(self, o) ELSE PermEqPermission(self, o))
    /\ operation' = IF is_dict THEN "SlashPermission.__eq__(dict)"
                    ELSE "SlashPermission.__eq__(SlashPermission)"
    /\ raised' = None
    /\ UNCHANGED <<ready, auto_defer, listening_components, component_listeners, interaction,
                   handled, trace>>
    /\ UNCHANGED gatherVars
    /\ UNCHANGED syncVars
    /\ UNCHANGED loopVars

\* one operation, applied after one of the operations `before`: the object it is called
\* on (for a constructor and a setter, the object as it is afterwards), its argument, what
\* it returns and what it raises
ApplyAfter(before, name, self, o, ret, err) ==
    /\ operation \in before
    /\ operation' = name
    /\ object' = self
    /\ argument' = o
    /\ returned' = ret
    /\ raised' = err
    /\ UNCHANGED <<ready, auto_defer, listening_components, component_listeners, interaction,
                   handled, trace>>
    /\ UNCHANGED gatherVars
    /\ UNCHANGED syncVars
    /\ UNCHANGED loopVars

\* one operation, applied in the idle state
Apply(name, self, o, ret, err) == ApplyAfter({"none"}, name, self, o, ret, err)

\* isinstance(o, SlashCommand)
IsSlashCommand(o) == o.json.type = Slash /\ "base_names" \notin DOMAIN o

\* command objects, and the dicts the API holds for them
CommandObjects ==
    { SlashCommand(Callback, Ping, None, None, <<>>, None, None),
      SlashCommand(Callback, Ping, Some(Pong), None, <<>>, None, None),
      SlashCommand(Callback, Ping, None, Some(<<SlashOption(OptString, ArgName, None, TRUE, None, FALSE, FALSE, None)>>), <<>>, None, None),
      SlashCommand(Callback, Ping, None, None, <<>>, Some(FALSE), None),
      SlashCommand(Callback, Pong, None, None, <<>>, None, None),
      BaseCommand(User, Callback, Ping, None, None, <<>>, None, None) }

CommandDicts ==
    { WithId(to_dict(c), 20) : c \in {x \in CommandObjects : IsSlashCommand(x)} }
    \cup { WithId([description |-> <<>>] @@ to_dict(c), 20) :
              c \in {x \in CommandObjects : ~IsSlashCommand(x)} }

\* BaseCommand.__eq__(o): `self == o`, and `o == self` for a dict o, which Python answers
\* with the reflected self.__eq__(o)
CommandEq(self, o, is_dict) ==
    IF is_dict
    THEN Apply("BaseCommand.__eq__(dict)", Some(self), Some(o), Some(CommandEqDict(self, o)), None)
    ELSE IF IsSlashCommand(o)
         THEN \* o._json('type') calls a dict
              Apply("BaseCommand.__eq__(SlashCommand)", Some(self), Some(o), None, Some("TypeError"))
         ELSE Apply("BaseCommand.__eq__(SlashCommand)", Some(self), Some(o), Some(FALSE), None)

\* a choice of an option, and the values given for choices
Choice == [name |-> <<"a">>, value |-> <<"a">>]
ChoiceLists == {None, Some(<<>>), Some(<<Choice>>)}

\* the operations that leave a SlashOption in `object`
OptionOperations ==
    {"SlashOption.__init__", "SlashOption.choices=", "SlashOption.autocomplete=",
     "SlashOption.name=", "SlashOption.description="}

\* SlashOption(str, "arg", choices=..., autocomplete=..., choice_generator=...); an
\* autocomplete of None goes through `autocomplete or ...` as False does
NewOption(choices, autocomplete, choice_generator) ==
    /\ object.none
    /\ Apply("SlashOption.__init__",
             Some(SlashOption(OptString, ArgName, None, FALSE, choices, autocomplete,
                              choice_generator, None)),
             Some(<<choices, autocomplete, choice_generator>>), None, None)

\* SlashOption.choices setter: a value that is no list is ignored
SetChoices(json, value) ==
    IF value.none THEN json
    ELSE [choices |-> value.v] @@ [k \in DOMAIN json \ {"choices"} |-> json[k]]

\* SlashOption.autocomplete setter
SetAutocomplete(json, value) == [json EXCEPT !.autocomplete = value]

\* option.choices = value
AssignChoices(value) ==
    /\ ~object.none
    /\ ApplyAfter(OptionOperations, "SlashOption.choices=",
                  Some(SetChoices(object.v, value)), Some(value), None, None)

\* option.autocomplete = value
AssignAutocomplete(value) ==
    /\ ~object.none
    /\ ApplyAfter(OptionOperations, "SlashOption.autocomplete=",
                  Some(SetAutocomplete(object.v, value)), Some(value), None, None)

\* the length limits of names and descriptions
MaxName        == 32
MaxDescription == 100

\* a text of n characters
Text(n) == [i \in 1..n |-> "a"]

\* the names and descriptions that get assigned
NameValues ==
    { Text(0), Text(1), Text(MaxName), Text(MaxName + 1),
      <<"A", " ", "b">>, <<"a", "-", "b">>, <<"a", "_", "b">>, <<"U+0130">> }
DescriptionValues == {Text(0), Text(1), Text(MaxDescription), Text(MaxDescription + 1)}

\* the operations that leave a command in `object`
CommandOperations == {"BaseCommand.__init__", "BaseCommand.name=", "BaseCommand.description="}

\* a command as its constructor has left it
NewCommand(c) ==
    /\ object.none
    /\ Apply("BaseCommand.__init__", Some(c), None, None, None)

\* as LengthError, with the upper limit off by one
LengthErrorOffByOne(value, what, most) ==
    IF Len(value) > most + 1 \/ Len(value) < 1 THEN Some(<<"InvalidLength", what>>) ELSE None

\* `if len(value) > most or len(value) < 1: raise InvalidLength(what, 1, most)`
LengthError(value, what, most) ==
    IF Len(value) > most \/ Len(value) < 1 THEN Some(<<"InvalidLength", what>>) ELSE None

\* SlashOption.name setter
SetOptionName(json, value) ==
    IF ~LengthError(value, "name", MaxName).none THEN json
    ELSE [json EXCEPT !.name = option_name(value)]

\* SlashOption.description setter
SetOptionDescription(json, value) ==
    IF ~LengthError(value, "description", MaxDescription).none THEN json
    ELSE [json EXCEPT !.description = value]

\* BaseCommand.name setter, for a str value
SetCommandName(c, value) ==
    IF ~LengthError(value, "name", MaxName).none THEN c
    ELSE [c EXCEPT !.json.name = IF c.json.type = Slash THEN format_name(value) ELSE value]

\* BaseCommand.description setter, for a str value
SetCommandDescription(c, value) ==
    IF ~LengthError(value, "description", MaxDescription).none THEN c
    ELSE [c EXCEPT !.json.description = value]

\* option.name = value
AssignOptionName(value) ==
    /\ ~object.none
    /\ ApplyAfter(OptionOperations, "SlashOption.name=", Some(SetOptionName(object.v, value)),
                  Some(value), None, LengthError(value, "name", MaxName))

\* option.description = value
AssignOptionDescription(value) ==
    /\ ~object.none
    /\ ApplyAfter(OptionOperations, "SlashOption.description=",
                  Some(SetOptionDescription(object.v, value)),
                  Some(value), None, LengthError(value, "description", MaxDescription))

\* command.name = value
AssignCommandName(value) ==
    /\ ~object.none
    /\ ApplyAfter(CommandOperations, "BaseCommand.name=", Some(SetCommandName(object.v, value)),
                  Some(value), None, LengthError(value, "name", MaxName))

\* command.description = value, for a slash command
AssignCommandDescription(value) ==
    /\ operation \in CommandOperations
    /\ object.v.json.type = Slash
    /\ ApplyAfter(CommandOperations, "BaseCommand.description=",
                  Some(SetCommandDescription(object.v, value)),
                  Some(value), None, LengthError(value, "description", MaxDescription))

\* the hints any_to_type is applied to
Classes ==
    {"str", "int", "bool", "discord.User", "discord.Member", "discord.TextChannel",
     "discord.VoiceChannel", "discord.StageChannel", "discord.CategoryChannel",
     "discord.Role", "float", "dict"}
Aliases ==
    {<<"s", "t", "r">>, <<"s", "t", "r", "i", "n", "g">>, <<"t", "e", "x", "t">>, <<"c", "h", "a", "r", "[", "]">>, <<"i", "n", "t">>, <<"i", "n", "t", "e", "g", "e", "r">>, <<"n", "u", "m", "b", "e", "r">>, <<"b", "o", "o", "l">>, <<"b", "o", "o", "l", "e", "a", "n">>, <<"u", "s", "e", "r">>, <<"d", "i", "s", "c", "o", "r", "d", ".", "u", "s", "e", "r">>, <<"m", "e", "m", "b", "e", "r">>, <<"d", "i", "s", "c", "o", "r", "d", ".", "m", "e", "m", "b", "e", "r">>, <<"u", "s", "r">>, <<"m", "b", "r">>, <<"c", "h", "a", "n", "n", "e", "l">>, <<"r", "o", "l", "e">>, <<"d", "i", "s", "c", "o", "r", "d", ".", "r", "o", "l", "e">>, <<"m", "e", "n", "t", "i", "o", "n", "a", "b", "l", "e">>, <<"m", "e", "n", "t", "i", "o", "n">>, <<"f", "l", "o", "a", "t">>, <<"f", "l", "o", "a", "t", "i", "n", "g">>, <<"f", "l", "o", "a", "t", "i", "n", "g", " ", "n", "u", "m", "b", "e", "r">>, <<"f">>}
TypeHints ==
    {IntHint(n) : n \in 0..11} \cup {ClassHint(c) : c \in Classes}
    \cup {StrHint(t) : t \in Aliases \cup {<<"S", "t", "r">>, ArgName, <<>>}}
    \cup {UnionHint, ListHint, NoneHint}

\* OptionType.any_to_type(whatever); it raises nothing
AnyToType(whatever) ==
    /\ object.none
    /\ Apply("OptionType.any_to_type", None, Some(whatever), any_to_type(whatever), None)

InitTypes ==
    /\ commands = <<>>
    /\ subcommands = <<>>
    /\ gathered = <<>>
    /\ prevGathered = <<>>
    /\ gcount = 0
    /\ regs = 0
    /\ SyncIdle
    /\ RouterIdle
    /\ ready = FALSE
    /\ TypesIdle
    /\ LoopIdle

NextTypes ==
    \/ \E p \in Permissions, q \in Permissions : PermissionEq(p, q, FALSE)
    \/ \E p \in Permissions, q \in PermissionLists : PermissionEq(p, q, TRUE)
    \/ \E c \in CommandObjects, d \in CommandObjects : CommandEq(c, d, FALSE)
    \/ \E c \in CommandObjects, d \in CommandDicts : CommandEq(c, d, TRUE)
    \/ \E c \in ChoiceLists, a \in BOOLEAN, g \in BOOLEAN : NewOption(c, a, g)
    \/ \E c \in ChoiceLists : AssignChoices(c)
    \/ \E a \in BOOLEAN : AssignAutocomplete(a)
    \/ \E c \in CommandObjects : NewCommand(c)
    \/ \E v \in NameValues : AssignOptionName(v)
    \/ \E v \in DescriptionValues : AssignOptionDescription(v)
    \/ \E v \in NameValues : AssignCommandName(v)
    \/ \E v \in DescriptionValues : AssignCommandDescription(v)
    \/ \E w \in TypeHints : AnyToType(w)

SpecTypes == InitTypes /\ [][NextTypes]_vars

(***************************************************************************)
(* Properties of the synchronisation, checked under Spec.  They are stated *)
(* over the log of the requests of the current run, the remote state the   *)
(* run started from (remote0) and the remote state it has reached.         *)
(***************************************************************************)
WriteCalls ==
    {"create_global_command", "edit_global_command", "delete_global_command",
     "create_guild_command", "edit_guild_command", "delete_guild_command",
     "update_command_permissions"}

Scopes == {0} \cup Guilds

\* the command list of a scope in a remote state
ListOf(r, scope) == IF scope = 0 THEN r.global ELSE r.guild[scope]

HasCommand(list, name, typ) ==
    \E k \in 1..Len(list) : list[k].name = name /\ list[k].type = typ

CommandOf(list, name, typ) ==
    list[CHOOSE k \in 1..Len(list) : list[k].name = name /\ list[k].type = typ]

\* what a remote command was defined with: everything but the id
Definition(p) == [k \in DOMAIN p \ {"id"} |-> p[k]]

\* the permission entries a declaration makes for a guild
DeclaredPermissions(c, g) ==
    IF ~c.guild_permissions.none /\ \E k \in 1..Len(c.guild_permissions.v) :
                                        c.guild_permissions.v[k].key = g
    THEN c.guild_permissions.v[CHOOSE k \in 1..Len(c.guild_permissions.v) :
                                   c.guild_permissions.v[k].key = g].val
    ELSE <<>>

\* the permission entries a remote state holds for a command of a guild
RemotePermissions(r, g, id) ==
    IF \E k \in 1..Len(r.perms[g]) : r.perms[g][k].key = id
    THEN r.perms[g][CHOOSE k \in 1..Len(r.perms[g]) : r.perms[g][k].key = id].val
    ELSE <<>>

\* the remote state r holds exactly what is declared: every declared command is in each
\* scope it is declared for, defined as declared (in a guild: with the declared
\* permission entries), and no scope holds a command that is not declared for it
MatchesDeclarations(r) ==
    /\ \A i \in 1..Len(decl) : \A s \in DeclaredScopes(decl[i]) :
          /\ HasCommand(ListOf(r, s), decl[i].json.name, decl[i].json.type)
          /\ LET p == CommandOf(ListOf(r, s), decl[i].json.name, decl[i].json.type)
             IN  /\ Definition(p) = decl[i].json
                 /\ s # 0 => RemotePermissions(r, s, p.id) = DeclaredPermissions(decl[i], s)
    /\ \A s \in Scopes : \A k \in 1..Len(ListOf(r, s)) :
          \E i \in 1..Len(decl) :
              /\ decl[i].json.name = ListOf(r, s)[k].name
              /\ decl[i].json.type = ListOf(r, s)[k].type
              /\ s \in DeclaredScopes(decl[i])

NoWrites == \A k \in 1..Len(log) : log[k].call \notin WriteCalls

\* C1: a run that starts from a remote state that matches the declarations (every guild
\* being accessible) issues no create, edit, delete or permission-update call, and neither
\* does the second of two runs in a row
C1_MatchedSyncWritesNothing ==
    (run >= 1 /\ forbidden = {} /\ (MatchesDeclarations(remote0) \/ run >= 2)) => NoWrites

\* the requests made for declaration i
CallsFor(i) == {k \in 1..Len(log) : log[k].ci = i}

\* C2: for a command declared globally that a guild holds remotely, the run deletes the
\* guild's copy before it creates or confirms the global command, and when the run is over
\* the command is not registered both globally and in that guild
C2_GuildCopyDeletedBeforeGlobal ==
    pc = "done" =>
        \A i \in 1..Len(decl) : \A g \in Guilds :
            (/\ decl[i].guild_ids = <<>>
             /\ HasCommand(remote0.guild[g], decl[i].json.name, decl[i].json.type))
            => /\ \E d \in 1..Len(log) :
                     /\ log[d].call = "delete_guild_command"
                     /\ log[d].scope = g
                     /\ log[d].id = CommandOf(remote0.guild[g], decl[i].json.name,
                                              decl[i].json.type).id
                     /\ log[d].status = 200
                     /\ \A k \in CallsFor(i) : d < k
               /\ ~(/\ HasCommand(remoteGlobal, decl[i].json.name, decl[i].json.type)
                    /\ HasCommand(remoteGuild[g], decl[i].json.name, decl[i].json.type))

\* the requests of declaration i that were answered (not rate limited)
Completed(i, call) ==
    {k \in CallsFor(i) : log[k].call = call /\ log[k].status # 429}

\* C3: for a declared global command whose (name, type) the remote global list did not
\* hold, the run issues exactly one create call, carrying the command's full definition,
\* and no edit or delete call for it; for "ping" declared with default settings the
\* payload is {type: 1, name: "ping", description: "ping", options: [],
\* default_permission: true}
C3_AbsentGlobalCreatedOnce ==
    pc = "done" =>
        \A i \in 1..Len(decl) :
            (/\ decl[i].guild_ids = <<>>
             /\ ~HasCommand(remote0.global, decl[i].json.name, decl[i].json.type))
            => /\ Cardinality(Completed(i, "create_global_command")) = 1
               /\ \A k \in Completed(i, "create_global_command") :
                     /\ log[k].payload = Some(decl[i].json)
                     /\ log[k].status = 200
                     /\ decl[i].json.name = Ping =>
                           log[k].payload.v = [type |-> 1, name |-> <<"p","i","n","g">>,
                                               description |-> <<"p","i","n","g">>,
                                               options |-> <<>>,
                                               default_permission |-> TRUE]
               /\ \A k \in CallsFor(i) :
                     log[k].call \in WriteCalls => log[k].call = "create_global_command"
               /\ \A k \in 1..Len(log) :
                     log[k].call = "delete_global_command" =>
                         \E m \in 1..Len(remote0.global) : remote0.global[m].id = log[k].id
               /\ HasCommand(remoteGlobal, decl[i].json.name, decl[i].json.type)

\* C3 witness: "ping" was declared globally, the remote global list was empty, and the run
\* is over after a create call with the payload of "ping"
C3_Witness ==
    /\ pc = "done"
    /\ Len(decl) = 1
    /\ decl[1].guild_ids = <<>>
    /\ decl[1].json.name = Ping
    /\ remote0.global = <<>>
    /\ \E k \in 1..Len(log) :
          /\ log[k].call = "create_global_command"
          /\ log[k].status = 200
          /\ log[k].payload.v.description = Ping

\* C4: when the scope a command is declared for holds the command under the same
\* (name, type) with another description, options or default_permission, the run issues
\* exactly one edit call, addressed to the remote command's id and carrying the declared
\* definition, and no create call for the command in that scope.  Stated for accessible
\* guilds and for a command that is not also registered globally.
C4_DifferingCommandEditedOnce ==
    (pc = "done" /\ forbidden = {}) =>
        \A i \in 1..Len(decl) : \A s \in DeclaredScopes(decl[i]) :
            LET name == decl[i].json.name
                typ  == decl[i].json.type
                edit == IF s = 0 THEN "edit_global_command" ELSE "edit_guild_command"
                make == IF s = 0 THEN "create_global_command" ELSE "create_guild_command"
            IN  (/\ HasCommand(ListOf(remote0, s), name, typ)
                 /\ Definition(CommandOf(ListOf(remote0, s), name, typ)) # decl[i].json
                 /\ s # 0 => ~HasCommand(remote0.global, name, typ))
                => /\ Cardinality({k \in Completed(i, edit) : log[k].scope = s}) = 1
                   /\ \A k \in Completed(i, edit) :
                         log[k].scope = s =>
                            /\ log[k].id = CommandOf(ListOf(remote0, s), name, typ).id
                            /\ log[k].payload = Some(decl[i].json)
                   /\ \A k \in CallsFor(i) : ~(log[k].call = make /\ log[k].scope = s)

\* a command of a remote state that no declaration names, whatever its scope
Undeclared(p) ==
    \A i \in 1..Len(decl) : ~(decl[i].json.name = p.name /\ decl[i].json.type = p.type)

DeleteCalls == {"delete_global_command", "delete_guild_command"}

\* C5: a remote command without a declaration is deleted by the run if and only if
\* delete_unused is set: without delete_unused no delete call is addressed to such a
\* command, and with delete_unused a finished run has deleted every such command of the
\* global scope and of the accessible guilds
C5_UnusedDeletedIffEnabled ==
    /\ ~delete_unused =>
          \A k \in 1..Len(log) :
              log[k].call \in DeleteCalls =>
                  \A m \in 1..Len(ListOf(remote0, log[k].scope)) :
                      ListOf(remote0, log[k].scope)[m].id = log[k].id
                          => ~Undeclared(ListOf(remote0, log[k].scope)[m])
    /\ (delete_unused /\ pc = "done") =>
          \A s \in Scopes \ forbidden : \A m \in 1..Len(ListOf(remote0, s)) :
              Undeclared(ListOf(remote0, s)[m]) =>
                  /\ \A n \in 1..Len(ListOf(Remote, s)) :
                        ListOf(Remote, s)[n].id # ListOf(remote0, s)[m].id
                  /\ \E k \in 1..Len(log) :
                        /\ log[k].call \in DeleteCalls
                        /\ log[k].scope = s
                        /\ log[k].id = ListOf(remote0, s)[m].id
                        /\ log[k].status = 200

\* C5 witness: a run with delete_unused is over and has deleted the undeclared global
\* command "old"
C5_Witness ==
    /\ pc = "done"
    /\ delete_unused
    /\ \E m \in 1..Len(remote0.global) :
          /\ remote0.global[m].name = OldName
          /\ Undeclared(remote0.global[m])
          /\ \E k \in 1..Len(log) :
                /\ log[k].call = "delete_global_command"
                /\ log[k].id = remote0.global[m].id
                /\ log[k].status = 200
    /\ \A n \in 1..Len(remoteGlobal) : remoteGlobal[n].name # OldName

\* two requests are the same call with the same arguments
SameCall(a, b) ==
    /\ a.call = b.call
    /\ a.scope = b.scope
    /\ a.id = b.id
    /\ a.payload = b.payload
    /\ a.ci = b.ci
    /\ a.gi = b.gi

\* C6: a request answered 429 is re-issued as it was: the next request of the run is the
\* same call with the same arguments, and no call that was answered is issued again in
\* the same create_command call
C6_RateLimitRetriesSameCall ==
    /\ \A k \in 1..(Len(log) - 1) : log[k].status = 429 => SameCall(log[k], log[k+1])
    /\ \A j \in 1..Len(log) : \A k \in 1..Len(log) :
          (/\ j < k
           /\ log[j].status # 429
           /\ log[k].status # 429
           /\ log[j].ci = log[k].ci
           /\ log[j].gi = log[k].gi)
          => ~(/\ log[j].call = log[k].call
               /\ log[j].scope = log[k].scope
               /\ log[j].id = log[k].id)

\* C6 witness: the creation of a guild command was answered 429 after the two lookups, and
\* the same creation followed and was answered 200
C6_Witness ==
    \E k \in 3..(Len(log) - 1) :
        /\ log[k].call = "create_guild_command"
        /\ log[k].status = 429
        /\ log[k+1].call = "create_guild_command"
        /\ log[k+1].status = 200
        /\ log[k+1].payload = log[k].payload

\* C7: a guild whose command list is answered 403 is skipped: no create, edit, delete or
\* permission-update call is issued for it, and the run does not end in an error
C7_ForbiddenGuildSkipped ==
    /\ \A k \in 1..Len(log) : \A j \in 1..(k-1) :
          (/\ log[j].call = "get_guild_commands"
           /\ log[j].status = 403
           /\ log[k].call \in WriteCalls)
          => log[k].scope # log[j].scope
    /\ (pc = "error" /\ log # <<>> => log[Len(log)].status # 403)

(***************************************************************************)
(* Properties of gather_commands, checked under SpecGather.                *)
(***************************************************************************)
\* C8: gather_commands() called twice with no registration or removal in between returns
\* structurally identical command trees
C8_GatherIdempotent == gcount >= 2 => gathered = prevGathered

\* C9: gather_commands() is a pure projection: a call leaves every command object of the
\* registry (name, description, options, guild_ids, default_permission, guild_permissions)
\* as it was
C9_GatherLeavesRegistry ==
    [][gcount' = gcount + 1 => (commands' = commands /\ subcommands' = subcommands)]_vars

\* the bases whose subcommands are all ungrouped and that are not declared as commands
UngroupedBases ==
    { i \in 1..Len(subcommands) :
        /\ Len(subcommands[i].val) >= 1
        /\ \A k \in 1..Len(subcommands[i].val) : ~subcommands[i].val[k].val.isdict
        /\ ~DictHas(commands, subcommands[i].key) }

\* C10: n >= 1 ungrouped subcommands under one base that is not itself declared gather
\* into exactly one top-level command named after the base, whose options are exactly n
\* SUB_COMMAND options, one per declared subcommand and named after it
C10_UngroupedSubcommandsCollapse ==
    gcount >= 1 =>
        \A i \in UngroupedBases :
            LET b    == subcommands[i].key
                subs == subcommands[i].val
            IN  /\ Cardinality({j \in 1..Len(gathered) : gathered[j].key = b}) = 1
                /\ DictGet(gathered, b).json.name = b
                /\ DictGet(gathered, b).json.type = Slash
                /\ LET ops == DictGet(gathered, b).json.options
                   IN  /\ Len(ops) = Len(subs)
                       /\ \A k \in 1..Len(subs) :
                             /\ ops[k].type = SUB_COMMAND
                             /\ ops[k].name = subs[k].val.sub.json.name
                             /\ ops[k].name = subs[k].key

\* C10 witness: "add" and "sub" under "math" have been gathered into one command "math"
\* with two options
C10_Witness ==
    /\ gcount >= 1
    /\ UngroupedBases # {}
    /\ DictHas(subcommands, Math)
    /\ ~DictHas(commands, Math)
    /\ Len(DictGet(subcommands, Math)) = 2
    /\ DictHas(DictGet(subcommands, Math), AddName)
    /\ DictHas(DictGet(subcommands, Math), SubName)
    /\ ~DictGet(DictGet(subcommands, Math), AddName).isdict
    /\ ~DictGet(DictGet(subcommands, Math), SubName).isdict
    /\ DictHas(gathered, Math)
    /\ Len(DictGet(gathered, Math).json.options) = 2

\* the children declared under entry i of subcommands, groups flattened
ChildrenOf(i) == FlattenSubs(subcommands[i].key, subcommands[i].val)

\* C11: a call of gather_commands() returns a parent that was declared on its own with the
\* guild_ids, default_permission and guild_permissions it was declared with, whatever its
\* children declare; a parent that had to be synthesized has the values of a child
C11_DeclaredParentKeepsSettings ==
    [][gcount' = gcount + 1 =>
        \A i \in 1..Len(subcommands) :
            LET b == subcommands[i].key
            IN  Len(ChildrenOf(i)) >= 1 =>
                  /\ DictHas(gathered', b)
                  /\ IF DictHas(commands, b)
                     THEN /\ DictGet(gathered', b).guild_ids = DictGet(commands, b).guild_ids
                          /\ DictGet(gathered', b).json.default_permission
                                = DictGet(commands, b).json.default_permission
                          /\ DictGet(gathered', b).guild_permissions
                                = DictGet(commands, b).guild_permissions
                     ELSE \E k \in 1..Len(ChildrenOf(i)) :
                          LET child == ChildrenOf(i)[k].sub
                          IN  /\ DictGet(gathered', b).guild_ids = child.guild_ids
                              /\ DictGet(gathered', b).json.default_permission
                                    = child.json.default_permission
                              /\ DictGet(gathered', b).guild_permissions
                                    = child.guild_permissions]_vars

\* C11 witness: "math" was declared for guild 1 with its own permissions, a child declared
\* under it without guild_ids, and the gathered "math" has the child as option and is for
\* guild 1
C11_Witness ==
    /\ gcount >= 1
    /\ DictHas(commands, Math)
    /\ DictGet(commands, Math).guild_ids = <<1>>
    /\ DictHas(subcommands, Math)
    /\ \E k \in 1..Len(FlattenSubs(Math, DictGet(subcommands, Math))) :
          FlattenSubs(Math, DictGet(subcommands, Math))[k].sub.guild_ids = <<>>
    /\ DictHas(gathered, Math)
    /\ Len(DictGet(gathered, Math).json.options) >= 1
    /\ DictGet(gathered, Math).guild_ids = <<1>>
    /\ DictGet(gathered, Math).json.default_permission = FALSE

\* C12: for the subcommands declared under [base, group], a call of gather_commands()
\* returns under the command named base exactly one SUB_COMMAND_GROUP option per group
\* name, and that option holds exactly one SUB_COMMAND option per subcommand declared in
\* the group, named after it
C12_OneOptionPerGroup ==
    gcount >= 1 =>
        \A i \in 1..Len(subcommands) : \A e \in 1..Len(subcommands[i].val) :
            LET b     == subcommands[i].key
                entry == subcommands[i].val[e]
            IN  entry.val.isdict =>
                  /\ DictHas(gathered, b)
                  /\ LET ops == DictGet(gathered, b).json.options
                         at  == {k \in 1..Len(ops) : ops[k].name = entry.key}
                     IN  /\ Cardinality(at) = 1
                         /\ \A k \in at :
                               /\ ops[k].type = SUB_COMMAND_GROUP
                               /\ Len(ops[k].options) = Len(entry.val.members)
                               /\ \A n \in 1..Len(entry.val.members) :
                                     /\ ops[k].options[n].type = SUB_COMMAND
                                     /\ ops[k].options[n].name = entry.val.members[n].key

(***************************************************************************)
(* Properties of the interaction routers, checked under SpecRouter.  They  *)
(* are stated over the record of the last handler run: the message it was  *)
(* given, what it did in order, and the exception it left with.            *)
(***************************************************************************)
IsDefer(e)       == e.kind = "request" /\ e.what = "defer"
StartsCallback(e) == e.kind \in {"callback", "listener", "message_listener"}

\* C13: with auto-defer configured, every callback a command or component interaction
\* starts (the command's callback, a listening component's, the message listener's) has
\* the deferred acknowledgment sent before it in the run, and none sent after it.
C13_DeferBeforeCallbacks ==
    auto_defer[1] = TRUE =>
        \A k \in 1..Len(trace) :
            StartsCallback(trace[k]) =>
                /\ \E j \in 1..(k - 1) : IsDefer(trace[j])
                /\ \A j \in (k + 1)..Len(trace) : ~IsDefer(trace[j])

\* a listening component's callback has started in a run with auto-defer configured
C13_Witness ==
    /\ auto_defer[1] = TRUE
    /\ \E k \in 1..Len(trace) : trace[k].kind = "listener"
    /\ \E k \in 1..Len(trace) : IsDefer(trace[k])

\* the last run was the slash router's, for a command or autocomplete interaction
RoutedBySlash ==
    /\ handled = Some("slash")
    /\ interaction.v.t = "INTERACTION_CREATE"
    /\ interaction.v.d.type \in {APPLICATION_COMMAND, APPLICATION_COMMAND_AUTOCOMPLETE}

\* ... and the interaction leads to no registered command
Unresolved ==
    /\ RoutedBySlash
    /\ get_command_for(commands, subcommands, interaction.v.d).none

\* a response to the interaction itself, as opposed to a request about its user
IsResponse(e) == e.kind = "request" /\ e.what \in {"defer", "autocomplete_result"}
IsCommandEvent(e) == e.kind = "dispatch" /\ e.what \in {"slash_command", "context_command"}

\* C14: a command interaction that resolves to no registered command is dropped: the run
\* starts no callback, dispatches no slash_command / context_command event, sends no
\* response for the interaction, and returns without an exception.
C14_UnresolvedCommandDropped ==
    Unresolved =>
        /\ raised = None
        /\ \A k \in 1..Len(trace) :
              /\ ~StartsCallback(trace[k])
              /\ ~IsCommandEvent(trace[k])
              /\ ~IsResponse(trace[k])

\* the last run routed a command interaction without options to a registered chat
\* command that declares no options
PlainCommandRouted ==
    /\ RoutedBySlash
    /\ interaction.v.d.type = APPLICATION_COMMAND
    /\ interaction.v.d.data.type = Slash
    /\ "options" \notin DOMAIN interaction.v.d.data
    /\ DictHas(commands, interaction.v.d.data.name)
    /\ DictGet(commands, interaction.v.d.data.name).json.type = Slash
    /\ OptionsOf(DictGet(commands, interaction.v.d.data.name).json) = <<>>

CallbackCalls == {k \in 1..Len(trace) : trace[k].kind = "callback"}

\* C15: a command interaction whose name and type match a registered chat command without
\* options has that command's callback called exactly once, with the context and no
\* option keyword argument.
C15_CallbackOnceWithContextOnly ==
    PlainCommandRouted =>
        /\ Cardinality(CallbackCalls) = 1
        /\ \A k \in CallbackCalls :
              /\ trace[k].what =
                     DictGet(commands, interaction.v.d.data.name).callback.v.name
              /\ trace[k].kwargs = <<>>

\* such an interaction has been routed and its callback has returned
C15_Witness ==
    /\ PlainCommandRouted
    /\ CallbackCalls # {}
    /\ raised = None

\* the last run was the component router's, for a component interaction
RoutedByComponents ==
    /\ handled = Some("component")
    /\ interaction.v.t = "INTERACTION_CREATE"
    /\ interaction.v.d.type = MESSAGE_COMPONENT

\* the listening components registered for the interaction's custom_id, in the order
\* they were registered
Registered ==
    IF DictHas(listening_components, interaction.v.d.data.custom_id)
    THEN DictGet(listening_components, interaction.v.d.data.custom_id)
    ELSE <<>>

\* the component the router builds for the interaction
Pressed ==
    [custom_id |-> interaction.v.d.data.custom_id,
     component_type |-> interaction.v.d.data.component_type,
     message |-> interaction.v.d.message.id, user |-> interaction.v.d.user.id]

ListenerCalls        == {k \in 1..Len(trace) : trace[k].kind = "listener"}
MessageListenerCalls == {k \in 1..Len(trace) : trace[k].kind = "message_listener"}

\* C16: on a component interaction the listening components called are ones registered
\* for its custom_id, each at most once and in the order of their registration; the
\* listener attached to the interaction's message is called after all of them; and a run
\* that ends without an exception has called every one that passes its filters, and the
\* message's listener if there is one.
C16_ListenersInRegistrationOrder ==
    RoutedByComponents =>
        /\ \A k \in ListenerCalls :
              \E i \in 1..Len(Registered) : Registered[i].id = trace[k].id
        /\ \A k1, k2 \in ListenerCalls : k1 < k2 => trace[k1].id < trace[k2].id
        /\ \A k \in ListenerCalls : \A l \in MessageListenerCalls : k < l
        /\ Cardinality(MessageListenerCalls) <= 1
        /\ raised = None =>
              /\ \A i \in 1..Len(Registered) :
                    Passes(Registered[i], Pressed) =>
                        \E k \in ListenerCalls : trace[k].id = Registered[i].id
              /\ DictHas(component_listeners, interaction.v.d.message.id)
                    => MessageListenerCalls # {}

\* two listening components and the message's listener have been called in one run
C16_Witness ==
    /\ RoutedByComponents
    /\ Cardinality(ListenerCalls) = 2
    /\ MessageListenerCalls # {}

\* whether the listening component has been called in the last run
ListenerCalled(lc) == \E k \in ListenerCalls : trace[k].id = lc.id

\* C17: when the callback of a listening component called for an interaction raises, every
\* listening component registered after it for the same custom_id that passes its filters
\* is called for that interaction all the same.
C17_ListenersIndependent ==
    RoutedByComponents =>
        \A i, j \in 1..Len(Registered) :
            /\ i < j
            /\ ListenerCalled(Registered[i])
            /\ Registered[i].callback.raises
            /\ Passes(Registered[j], Pressed)
            => ListenerCalled(Registered[j])

\* whether the loop over the listening components has come to the i-th of them: none
\* before it has raised
Reached(i) ==
    \A j \in 1..(i - 1) :
        ~(ListenerCalled(Registered[j]) /\ Registered[j].callback.raises)

\* C18: a listening component registered with a message-id allow-list is called for an
\* interaction with its custom_id only when the interaction's message id is in the list
\* (with [42]: not for message 43), and when the id is in the list and the loop comes to
\* it, it is called (with [42]: for message 42).
C18_MessageAllowList ==
    RoutedByComponents =>
        \A i \in 1..Len(Registered) :
            ~Registered[i].messages.none =>
                /\ ListenerCalled(Registered[i]) =>
                        Allows(Registered[i].messages, interaction.v.d.message.id)
                /\ /\ Reached(i)
                   /\ Allows(Registered[i].messages, interaction.v.d.message.id)
                   => ListenerCalled(Registered[i])

\* an interaction for message 43 has been routed past a listening component that allows
\* message 42 only
C18_Witness ==
    /\ RoutedByComponents
    /\ raised = None
    /\ interaction.v.d.message.id = 43
    /\ \E i \in 1..Len(Registered) :
          /\ Registered[i].messages = Some(<<42>>)
          /\ ~ListenerCalled(Registered[i])

\* a registration call whose callback is not a coroutine function
SyncRegistration ==
    \/ \E c \in CommandChoices :
          /\ ~c.callback.coroutine
          /\ AddCommand(c.type, Ping, Some(c.callback), c.options, FALSE)
    \/ \E c \in SubcommandChoices :
          /\ ~c.callback.coroutine
          /\ AddSubcommand(c.base_names, AddName, Some(c.callback))
    \/ \E c \in ListenerChoices :
          /\ ~c.callback.coroutine
          /\ AddListeningComponent(c.callback, c.custom_id, c.messages)

C20_CallbackErrorContained ==
    handled # None =>
        \A k \in 1..Len(trace) :
            StartsCallback(trace[k]) => raised # Some("CallbackError")

(***************************************************************************)
(* Properties of the command model, checked under SpecTypes.               *)
(***************************************************************************)
\* the entries of a permission list, as a set
EntrySet(entries) == { entries[i] : i \in 1..Len(entries) }

ComparedPermissions ==
    operation \in {"SlashPermission.__eq__(dict)", "SlashPermission.__eq__(SlashPermission)"}

\* C21: a SlashPermission equals another permission set (a SlashPermission or the API's
\* {permissions: [...]} dict) exactly when the two hold the same (id, type, permission)
\* entries, in whatever order.
C21_PermissionEqIsSetEquivalence ==
    ComparedPermissions =>
        returned.v = (EntrySet(object.v) = EntrySet(argument.v))

(***************************************************************************)
(* Properties of the permission synchronisation, checked under Spec        *)
(***************************************************************************)
\* add_guild_command has looked up the guild command, its permissions and the global
\* command, and found the remote definition equal to the local one
DefinitionReconciled ==
    /\ pc = "get_global_api_command"
    /\ pc' # pc
    /\ ~api_command.none
    /\ global_command'.none
    /\ CommandEqDict(base.v, api_command.v)

\* the entries declared locally for the guild: none when nothing is declared for it
DeclaredEntries == IF base.v.permissions.none THEN {} ELSE EntrySet(base.v.permissions.v)

\* the step goes on to put the command's permissions
IssuesPermissionUpdate == pc' = "update_command_permissions" /\ ~base.v.permissions.none

\* C22: for a guild command whose remote definition equals the local one, the permissions
\* are put again exactly when the remote entries and the declared entries differ as sets;
\* the comparison is made once the definition has been found reconciled.
C22_PermissionUpdateIffSetsDiffer ==
    [][DefinitionReconciled =>
          (IssuesPermissionUpdate <=> EntrySet(api_permissions.v) # DeclaredEntries)]_vars

(***************************************************************************)
(* Properties of command equality, checked under SpecTypes                 *)
(***************************************************************************)
ComparedCommands ==
    operation \in {"BaseCommand.__eq__(dict)", "BaseCommand.__eq__(SlashCommand)"}

\* the type, name, description, options and default_permission of a command object or of
\* the dict of a command
CommandFields(x) ==
    LET json == IF "json" \in DOMAIN x THEN x.json ELSE x
    IN  [type               |-> json.type,
         name               |-> json.name,
         description        |-> GetDef(json, "description", <<>>),
         options            |-> GetDef(json, "options", <<>>),
         default_permission |-> json.default_permission]

\* C23: comparing a command with a raw API dict or with a command object, in either
\* direction, raises nothing and is true exactly when type, name, description, options
\* and default_permission are the same.
C23_CommandEqBothDirections ==
    ComparedCommands =>
        /\ raised = None
        /\ ~returned.none
        /\ returned.v = (CommandFields(object.v) = CommandFields(argument.v))

(***************************************************************************)
(* Properties of SlashOption, checked under SpecTypes                      *)
(***************************************************************************)
\* C24: a SlashOption, after its construction and after every later assignment to its
\* choices or its autocomplete, never has a choices list and autocomplete = true together.
C24_ChoicesExcludeAutocomplete ==
    (operation \in OptionOperations /\ ~object.none) =>
        ~("choices" \in DOMAIN object.v /\ object.v.autocomplete = TRUE)

\* an assignment to the name or to the description of an option or of a command
NameAssigned        == operation \in {"SlashOption.name=", "BaseCommand.name="}
DescriptionAssigned == operation \in {"SlashOption.description=", "BaseCommand.description="}

\* the dict of the option or command in `object`
JsonOf(x) == IF "json" \in DOMAIN x THEN x.json ELSE x

Normalized(x, name) ==
    IF "json" \in DOMAIN x THEN format_name(name) ELSE option_name(name)

\* a name has been stored in an option or in a slash command
NameStored ==
    /\ NameAssigned
    /\ raised = None
    /\ JsonOf(object.v).type = Slash \/ operation = "SlashOption.name="

\* C26: both normalizers are idempotent and keep the length of the name: the stored name
\* is its own normal form and as long as the name that was assigned, and assigning the
\* stored name again leaves the object as it is.
C26_NormalizationIdempotent ==
    [][NameStored' =>
         LET stored == JsonOf(object'.v).name
         IN  /\ Normalized(object'.v, stored) = stored
             /\ Len(stored) = Len(argument'.v)
             /\ argument'.v = JsonOf(object.v).name => object' = object]_vars

(***************************************************************************)
(* Properties of the option kinds, checked under SpecTypes                 *)
(***************************************************************************)
\* the supported type hints with their kinds: the integers 1..10 (the resolved kinds are
\* these), the native types and the string aliases, in whatever case
SupportedHints ==
    {<<IntHint(n), n>> : n \in 1..10}
    \cup { <<ClassHint("str"), 3>>, <<ClassHint("int"), 4>>, <<ClassHint("bool"), 5>>,
           <<ClassHint("discord.User"), 6>>, <<ClassHint("discord.Member"), 6>>,
           <<ClassHint("discord.TextChannel"), 7>>, <<ClassHint("discord.VoiceChannel"), 7>>,
           <<ClassHint("discord.StageChannel"), 7>>, <<ClassHint("discord.CategoryChannel"), 7>>,
           <<ClassHint("discord.Role"), 8>>, <<UnionHint, 9>>, <<ClassHint("float"), 10>>,
           <<ListHint, 7>>, <<StrHint(<<"S", "t", "r">>), 3>> }
    \cup {<<StrHint(t), 3>> : t \in {<<"s", "t", "r">>, <<"s", "t", "r", "i", "n", "g">>, <<"t", "e", "x", "t">>, <<"c", "h", "a", "r", "[", "]">>}}
    \cup {<<StrHint(t), 4>> : t \in {<<"i", "n", "t">>, <<"i", "n", "t", "e", "g", "e", "r">>, <<"n", "u", "m", "b", "e", "r">>}}
    \cup {<<StrHint(t), 5>> : t \in {<<"b", "o", "o", "l">>, <<"b", "o", "o", "l", "e", "a", "n">>}}
    \cup {<<StrHint(t), 6>> : t \in {<<"u", "s", "e", "r">>, <<"d", "i", "s", "c", "o", "r", "d", ".", "u", "s", "e", "r">>, <<"m", "e", "m", "b", "e", "r">>, <<"d", "i", "s", "c", "o", "r", "d", ".", "m", "e", "m", "b", "e", "r">>, <<"u", "s", "r">>, <<"m", "b", "r">>}}
    \cup {<<StrHint(t), 7>> : t \in {<<"c", "h", "a", "n", "n", "e", "l">>}}
    \cup {<<StrHint(t), 8>> : t \in {<<"r", "o", "l", "e">>, <<"d", "i", "s", "c", "o", "r", "d", ".", "r", "o", "l", "e">>}}
    \cup {<<StrHint(t), 9>> : t \in {<<"m", "e", "n", "t", "i", "o", "n", "a", "b", "l", "e">>, <<"m", "e", "n", "t", "i", "o", "n">>}}
    \cup {<<StrHint(t), 10>> : t \in {<<"f", "l", "o", "a", "t">>, <<"f", "l", "o", "a", "t", "i", "n", "g">>, <<"f", "l", "o", "a", "t", "i", "n", "g", " ", "n", "u", "m", "b", "e", "r">>, <<"f">>}}

\* C27: any_to_type gives every supported type hint its option kind, and for a hint with
\* no mapping it raises an InvalidArgument error and returns nothing.
C27_AnyToTypeMapsOrFails ==
    operation = "OptionType.any_to_type" =>
        IF \E h \in SupportedHints : h[1] = argument.v
        THEN /\ raised = None
             /\ \E h \in SupportedHints : h[1] = argument.v /\ returned = Some(h[2])
        ELSE /\ raised = Some("InvalidArgument")
             /\ returned = None

(***************************************************************************)
(* Properties of the declaration of commands, checked under SpecRouter     *)
(***************************************************************************)
\* the commands and the subcommands the registry holds
HeldCommands ==
    {commands[i].val : i \in 1..Len(commands)}
    \cup {FlattenBases(subcommands)[i].sub : i \in 1..Len(FlattenBases(subcommands))}

\* the callback f has a parameter named as the option, with a default unless the option
\* is required
HasParameterFor(f, option) ==
    \E i \in 1..Len(f.signature) :
        /\ f.signature[i].name = option.name
        /\ option.required \/ ~f.signature[i].default.none

\* the declaration of a command with an option its coroutine callback has no such
\* parameter for
ViolatingDeclaration ==
    \E c \in CommandChoices :
        /\ c.callback.coroutine
        /\ ~c.options.none
        /\ \E k \in 1..Len(c.options.v) : ~HasParameterFor(c.callback, c.options.v[k])
        /\ AddCommand(c.type, Ping, Some(c.callback), c.options, FALSE)

\* C28: every command the registry holds has, for each of its options, a callback
\* parameter of that name, with a default when the option is not required; a declaration
\* that has not ends with MissingOptionParameter or OptionalOptionParameter and leaves
\* the registry as it was.
C28_OptionsHaveParameters ==
    /\ [](\A c \in HeldCommands :
            ~c.callback.none =>
                \A k \in 1..Len(OptionsOf(c.json)) :
                    HasParameterFor(c.callback.v, OptionsOf(c.json)[k]))
    /\ [][ViolatingDeclaration =>
            /\ raised' \in {Some("MissingOptionParameter"), Some("OptionalOptionParameter")}
            /\ UNCHANGED <<commands, subcommands>>]_vars

\* a command with an option is held, and the declaration of one whose parameter lacks the
\* default has just been rejected
C28_Witness ==
    /\ raised = Some("OptionalOptionParameter")
    /\ \E c \in HeldCommands : OptionsOf(c.json) # <<>>

\* the names the declaration c files commands under: its own and its aliases'
DeclaredNames(c) ==
    {Ping} \cup {format_name(c.callback.aliases.v[i]) : i \in 1..Len(c.callback.aliases.v)}

\* the declaration of a command with aliases, none of its names being taken
AliasedDeclaration(c) ==
    /\ ~c.callback.aliases.none
    /\ \A n \in DeclaredNames(c) : ~DictHas(commands, n)
    /\ AddCommand(c.type, Ping, Some(c.callback), c.options, FALSE)

\* C29: adding a command with k aliases adds exactly k + 1 entries: the command under its
\* own name, which is no alias, and for each alias a clone under the alias' name, which is
\* an alias and equals the command in everything but the name.
C29_OneEntryPerAlias ==
    [][\A c \in CommandChoices :
          AliasedDeclaration(c) =>
            /\ Len(commands') = Len(commands) + Len(c.callback.aliases.v) + 1
            /\ DictHas(commands', Ping)
            /\ ~is_alias(DictGet(commands', Ping))
            /\ \A n \in DeclaredNames(c) \ {Ping} :
                  /\ DictHas(commands', n)
                  /\ is_alias(DictGet(commands', n))
                  /\ DictGet(commands', n) = [DictGet(commands', Ping) EXCEPT !.json.name = n]]_vars

(***************************************************************************)
(* C30: add_command(..., api=True) called before the connect event has     *)
(* made the extension ready raises ClientException and sends no request to *)
(* the remote API: the request log and the remote commands stay as they    *)
(* were.  A callback or an option the constructor refuses raises its own   *)
(* exception first, and no request is sent then either.                    *)
(***************************************************************************)
ApiRegistration(c) ==
    /\ c.type = Slash
    /\ AddCommand(c.type, Ping, Some(c.callback), c.options, TRUE)

C30_NotReadyRaisesWithoutRequest ==
    [][\A c \in CommandChoices :
          (~ready /\ ApiRegistration(c)) =>
             /\ log' = log
             /\ remoteGlobal' = remoteGlobal
             /\ nextId' = nextId
             /\ DeclarationError(c.type, Some(c.callback), c.options).none =>
                    raised' = Some("ClientException")]_vars

C30_Witness ==
    /\ ~ready
    /\ raised = Some("ClientException")
    /\ DictHas(commands, Ping)
    /\ log = <<>>

(***************************************************************************)
(* Properties of create_command, checked under Spec                        *)
(***************************************************************************)
\* create_command hands the command to add_guild_command, in iteration gi of its loop
GuildReconciliation ==
    /\ pc = "create_command"
    /\ pc' = "add_guild_command"

\* C33: create_command for a command declared with guild_ids G calls add_guild_command once
\* for each guild of G, in the order of G, for that guild and with the permissions
\* guild_permissions declares for it, and never registers the command globally.
C33_EachGuildReconciledOnce ==
    [][/\ GuildReconciliation =>
             /\ gi \in 1..Len(base.v.guild_ids)
             /\ target' = base.v.guild_ids[gi]
             /\ base'.v.permissions = GuildPermissions(base.v, base.v.guild_ids[gi])
       /\ (pc = "create_command" /\ base.v.guild_ids # <<>>) => pc' # "add_global_command"]_vars

(***************************************************************************)
(* Properties of add_guild_command, checked under Spec                     *)
(***************************************************************************)
\* the request this step adds to the log, if it adds one
Issued(call) == Len(log') = Len(log) + 1 /\ log'[Len(log')].call = call

\* add_guild_command has just learnt that the command is registered globally
GlobalCommandFound ==
    /\ pc = "get_global_api_command"
    /\ pc' # pc
    /\ ~global_command'.none

\* the global command was deleted earlier in this call of add_guild_command
GlobalDeletedBefore ==
    \E i \in 1..Len(log) :
        /\ log[i].call = "delete_global_command"
        /\ log[i].id = global_command.v.id
        /\ log[i].status = 200
        /\ log[i].ci = ci
        /\ log[i].gi = gi

\* add_guild_command returns to create_command
AddGuildCommandCompletes ==
    /\ pc \in {"get_global_api_command", "update_command_permissions"}
    /\ pc' = "create_command"
    /\ gi' = gi + 1

\* C38: when the command declared for a guild is registered globally under the same name
\* and type, add_guild_command deletes the global command and then creates the guild
\* command, whether or not the guild holds a copy already: the delete comes before the
\* create, the create follows the delete, and when the call returns no global command of
\* that name and type is left.
C38_GlobalDeletedThenGuildCreated ==
    [][/\ GlobalCommandFound => pc' = "delete_global_command"
       /\ (pc = "delete_global_command" /\ pc' # pc) => pc' = "create_guild_command"
       /\ (pc = "create_guild_command" /\ ~global_command.none) =>
             /\ GlobalDeletedBefore
             /\ Issued("create_guild_command")
       /\ (AddGuildCommandCompletes /\ ~global_command'.none) =>
             ApiCommand(remoteGlobal', base.v.json.name, base.v.json.type).none]_vars

(***************************************************************************)
(* The synthesized parent, checked under SpecGather                        *)
(***************************************************************************)
\* the bases with several subcommands that are not declared as commands themselves
SynthesizedBases ==
    { i \in 1..Len(subcommands) :
        /\ Len(ChildrenOf(i)) >= 2
        /\ ~DictHas(commands, subcommands[i].key) }

\* C39: when gather_commands() has to synthesize the parent of several subcommands of one
\* base, the parent it returns has the guild_ids, default_permission and guild_permissions
\* of the first subcommand processed for that base, whatever the later ones declare.
C39_FirstSubcommandSetsParent ==
    [][gcount' = gcount + 1 =>
        \A i \in SynthesizedBases :
            LET parent == DictGet(gathered', subcommands[i].key)
                first  == ChildrenOf(i)[1].sub
            IN  /\ DictHas(gathered', subcommands[i].key)
                /\ parent.guild_ids = first.guild_ids
                /\ parent.json.default_permission = first.json.default_permission
                /\ parent.guild_permissions = first.guild_permissions]_vars

\* C39 witness: two subcommands of "math" were declared with different settings, "math"
\* itself was not, and the gathered "math" has the settings of the first of the two
C39_Witness ==
    /\ gcount >= 1
    /\ DictHas(subcommands, Math)
    /\ ~DictHas(commands, Math)
    /\ DictHas(gathered, Math)
    /\ LET children == FlattenSubs(Math, DictGet(subcommands, Math))
       IN  /\ Len(children) = 2
           /\ children[1].sub.guild_ids # children[2].sub.guild_ids
           /\ children[1].sub.guild_permissions # children[2].sub.guild_permissions
           /\ children[1].sub.json.default_permission # children[2].sub.json.default_permission
           /\ DictGet(gathered, Math).guild_ids = children[1].sub.guild_ids
           /\ Len(OptionsOf(DictGet(gathered, Math).json)) >= 1

(***************************************************************************)
(* Classification of the interactions, checked under SpecRouter            *)
(***************************************************************************)
\* the last handler run was the slash router's, given a ping interaction
PingRouted ==
    /\ handled = Some("slash")
    /\ interaction.v.t = "INTERACTION_CREATE"
    /\ interaction.v.d.type = PING

\* C34: the slash router is done with a ping interaction once it has classified it: it
\* resolves no command, builds no context, dispatches no event, calls no callback, sends
\* nothing and raises no error.
C34_PingIsTerminal ==
    PingRouted => (trace = <<>> /\ raised = None)

\* how often the handler run r did `what`
Count(r, what) == Len(SelectSeq(r.trace, LAMBDA e : e.what = what))

\* what each of the two routers does with the gateway message in the present state
SlashRun(msg)     == _on_slash_response(msg, commands, subcommands, auto_defer)
ComponentRun(msg) == _on_component_response(msg, listening_components, component_listeners, auto_defer)

\* C40: a gateway message is handed to both routers.  Of an INTERACTION_CREATE message that
\* has been delivered at most one of them makes anything, so between them the deferred
\* acknowledgment is sent at most once and interaction_received is dispatched at most once,
\* with auto-defer on as well; of any other gateway message neither router makes a
\* dispatch, a request or a call.
C40_OneRouterPerInteraction ==
    ~interaction.none =>
        LET msg == interaction.v
        IN  /\ SlashRun(msg) = Returned \/ ComponentRun(msg) = Returned
            /\ Count(SlashRun(msg), "defer") + Count(ComponentRun(msg), "defer") <= 1
            /\ Count(SlashRun(msg), "interaction_received")
                  + Count(ComponentRun(msg), "interaction_received") <= 1
            /\ msg.t # "INTERACTION_CREATE" =>
                  (SlashRun(msg).trace = <<>> /\ ComponentRun(msg).trace = <<>>)

\* C40 witness: with auto-defer on, the component router has acknowledged a component
\* interaction and called a listener, and the slash router does nothing with that message
C40_Witness ==
    /\ handled = Some("component")
    /\ auto_defer[1] = TRUE
    /\ interaction.v.d.type = MESSAGE_COMPONENT
    /\ trace = ComponentRun(interaction.v).trace
    /\ Count([trace |-> trace], "defer") = 1
    /\ Count([trace |-> trace], "interaction_received") = 1
    /\ \E i \in 1..Len(trace) : trace[i].kind = "listener"
    /\ SlashRun(interaction.v) = Returned

(***************************************************************************)
(* Nested command paths, checked under SpecRouter                          *)
(***************************************************************************)
\* the last handler run was the slash router's, for a command interaction that addresses
\* a registered subcommand
SubcommandRouted ==
    /\ handled = Some("slash")
    /\ interaction.v.t = "INTERACTION_CREATE"
    /\ interaction.v.d.type = APPLICATION_COMMAND
    /\ interaction.v.d.data.type = Slash
    /\ IsSubcommandPath(interaction.v.d.data)
    /\ ~get_command_for(commands, subcommands, interaction.v.d).none

\* the SUB_COMMAND option of a payload of nesting depth 1 or 2
Innermost(inner) ==
    IF inner.options[1].type = SUB_COMMAND THEN inner.options[1]
    ELSE inner.options[1].options[1]

\* the enclosing names of the path
PathNames(inner) ==
    {inner.name, inner.options[1].name, Innermost(inner).name}

\* C36: for a command interaction addressing base -> subcommand or base -> group ->
\* subcommand, the router calls the callback of the resolved subcommand exactly once, with
\* one named argument for each option the innermost SUB_COMMAND carries and for nothing
\* else: the names of the path are no arguments.
C36_SubcommandGetsInnermostOptions ==
    SubcommandRouted =>
        LET inner == interaction.v.d.data
            sub   == get_command_for(commands, subcommands, interaction.v.d).v
            given == GetDef(Innermost(inner), "options", <<>>)
            calls == SelectSeq(trace, LAMBDA e : e.kind = "callback")
        IN  /\ Len(calls) = 1
            /\ calls[1].what = sub.callback.v.name
            /\ Len(calls[1].kwargs) = Len(given)
            /\ \A i \in 1..Len(given) :
                  /\ calls[1].kwargs[i].key = given[i].name
                  /\ calls[1].kwargs[i].val = given[i].value
                  /\ given[i].name \notin PathNames(inner)

\* C36 witness: "math ops add" was called with an argument, and the callback of the
\* subcommand filed under math -> ops -> add has been called with that argument
C36_Witness ==
    /\ SubcommandRouted
    /\ interaction.v.d.data.options[1].type = SUB_COMMAND_GROUP
    /\ \E i \in 1..Len(trace) :
          /\ trace[i].kind = "callback"
          /\ Len(trace[i].kwargs) = 1
          /\ trace[i].kwargs[1].key = ArgName

(***************************************************************************)
(* Autocomplete, checked under SpecRouter                                  *)
(***************************************************************************)
\* the last handler run was the slash router's, for an autocomplete interaction that
\* resolves to a registered chat command
AutocompleteRouted ==
    /\ handled = Some("slash")
    /\ interaction.v.t = "INTERACTION_CREATE"
    /\ interaction.v.d.type = APPLICATION_COMMAND_AUTOCOMPLETE
    /\ interaction.v.d.data.type = Slash
    /\ ~get_command_for(commands, subcommands, interaction.v.d).none

\* the option of the payload the user is typing in
FocusedOption(inner) ==
    LET focused == SelectSeq(inner.options, LAMBDA x : GetDef(x, "focused", FALSE))
    IN  focused[1]

\* the run ended with the call of the generator and, after it, one autocomplete result
\* holding the generator's choices in its order, each as a dict {name, value}
AnsweredWith(generator, option) ==
    /\ raised = None
    /\ Len(trace) >= 2
    /\ trace[Len(trace) - 1].kind = "choice_generator"
    /\ trace[Len(trace) - 1].what = generator.name
    /\ trace[Len(trace) - 1].option = option
    /\ trace[Len(trace)].what = "autocomplete_result"
    /\ Len(SelectSeq(trace, LAMBDA e : e.what = "autocomplete_result")) = 1
    /\ Len(trace[Len(trace)].choices) = Len(generator.choices)
    /\ \A i \in 1..Len(generator.choices) :
          LET given == generator.choices[i]
              sent  == trace[Len(trace)].choices[i]
          IN  /\ DOMAIN sent = {"name", "value"}
              /\ sent.name = IF "tuple" \in DOMAIN given THEN given.tuple[1] ELSE given.name
              /\ sent.value = IF "tuple" \in DOMAIN given THEN given.tuple[2] ELSE given.value

\* C35: for an autocomplete interaction that resolves to a registered chat command, the
\* router calls the choice generator of the focused option and then sends exactly one
\* autocomplete result with the generated choices in the generator's order, tuples turned
\* into {name, value}; it sends no deferred acknowledgment, dispatches no event and never
\* calls the command's callback.
C35_AutocompleteAnswersWithChoices ==
    AutocompleteRouted =>
        LET command == get_command_for(commands, subcommands, interaction.v.d).v
            option  == FocusedOption(interaction.v.d.data).name
        IN  /\ DictHas(command.choice_generators, option)
            /\ AnsweredWith(DictGet(command.choice_generators, option), option)
            /\ \A i \in 1..Len(trace) :
                  /\ trace[i].what # "defer"
                  /\ trace[i].kind \notin {"dispatch", "callback"}

\* the last request of the run was answered 429
RateLimitedCall == Len(log) > 0 /\ log[Len(log)].status = 429

\* the last request of the run is the retry of a request answered 429, and it was answered
\* with something else
RetryAnswered ==
    /\ Len(log) > 1
    /\ log[Len(log) - 1].status = 429
    /\ log[Len(log)].status # 429
    /\ SameCall(log[Len(log) - 1], log[Len(log)])

\* C37: with finitely many 429 answers, a request answered 429 is followed in the end by
\* the same request answered with something other than 429, and the run goes on past it
\* to its end (all calls made, or the error of a call raised)
C37_RateLimitRetryTerminates ==
    /\ RateLimitedCall ~> RetryAnswered
    /\ RateLimitedCall ~> (pc \in {"done", "error"})

\* C37 witness: a run that was answered 429, then had the retry answered 200, has made all
\* its calls
C37_Witness ==
    /\ pc = "done"
    /\ \E k \in 1..(Len(log) - 1) :
          /\ log[k].status = 429
          /\ log[k+1].status = 200
          /\ SameCall(log[k], log[k+1])
          /\ k + 1 < Len(log)

(***************************************************************************)
(* Properties of runs started while another is going on, checked under     *)
(* SpecRuns.                                                               *)
(***************************************************************************)
\* the run with locals c awaits the answer of a write request for the scope
WriteInFlight(c, scope) ==
    \/ /\ c.pc \in {"create_global_command", "edit_global_command", "delete_global_command"}
       /\ scope = 0
    \/ /\ c.pc \in {"create_guild_command", "edit_guild_command", "update_command_permissions"}
       /\ ~c.base.v.permissions.none
       /\ scope = c.target
    \/ /\ c.pc = "unused_delete"
       /\ c.pending # <<>>
       /\ scope = c.target

\* the run with locals c was answered a list of the scope without a command of that
\* name, and later had its creation of that command in the scope answered 200
CreatedWhenAbsent(c, scope, name) ==
    \E j \in 1..Len(c.log) : \E k \in (j+1)..Len(c.log) :
        /\ c.log[j].call \in {"get_global_commands", "get_guild_commands"}
        /\ c.log[j].scope = scope
        /\ c.log[j].status = 200
        /\ \A x \in 1..Len(c.log[j].result.v) : c.log[j].result.v[x].name # name
        /\ c.log[k].call \in {"create_global_command", "create_guild_command"}
        /\ c.log[k].scope = scope
        /\ c.log[k].status = 200
        /\ c.log[k].payload.v.name = name

\* C31: no two runs await the answer of a write request for the same scope at the same
\* time, and no two runs both find a command absent from a scope and both create it there
C31_OneRunWritesPerScope ==
    \A i \in 1..Len(tasks) : \A scope \in Scopes :
        /\ ~(WriteInFlight(Locals, scope) /\ WriteInFlight(tasks[i], scope))
        /\ ~(CreatedWhenAbsent(Locals, scope, Ping) /\ CreatedWhenAbsent(tasks[i], scope, Ping))

(***************************************************************************)
(* Properties of the routers on the event loop, checked under SpecOrder.   *)
(***************************************************************************)
\* the entry is the call of a command callback or of a component listener
HandlerCall(entry) == entry.kind \in {"callback", "listener", "message_listener"}

\* C32: the handlers are called in the order their interactions were delivered: the call
\* of the handler of an earlier delivery comes before that of a later one
C32_HandlersInDeliveryOrder ==
    \A x \in 1..Len(trace) : \A y \in 1..Len(trace) :
        (/\ HandlerCall(trace[x])
         /\ HandlerCall(trace[y])
         /\ trace[x].delivery < trace[y].delivery)
        => x < y

====
